---- MODULE Spec2Model ----
(***************************************************************************)
(* Verification model of git-switch (rein-hosz/GitSwitch).                 *)
(*                                                                         *)
(* Text (file contents, lines, account names, paths) is modelled as a      *)
(* sequence of tokens.  Every token stands for one fixed piece of text;    *)
(* the token set is a prefix code (no token's text is a prefix of another  *)
(* token's text) and no search needle used below can start in the middle   *)
(* of a token, so equality, starts_with and contains on token sequences    *)
(* agree with the same tests on the strings they stand for.                *)
(*   "\n" "\r" " "  the line feed, carriage return and space characters    *)
(*   "#" "Host" "github.com-" "GitHub Account (git-switch managed)"        *)
(*   "Name github.com" (so "HostName github.com" is "Host" then this)      *)
(*   "User git" "IdentityFile" "IdentitiesOnly yes"                        *)
(*   "w" "W" "x" "2" "_"   characters of account names                     *)
(*   "~" "/" "home" "k1" "k2" path pieces, "example.com" a foreign host    *)
(***************************************************************************)
EXTENDS Integers, Sequences, FiniteSets, TLC

VARIABLES
    \* the SSH config manager
    ssh_config,   \* content of ~/.ssh/config, or NoFile
    before,       \* its content before the last call
    last,         \* the last call: operation, arguments, result
    calls,        \* number of calls made
    \* repository analysis
    accounts,     \* RepoManager.config.accounts: account name -> Account
    iter_order,   \* the order in which this process's HashMap yields the accounts
    remote_url,   \* Option: the URL of the origin remote
    url_owner,    \* the owner segment as written in remote_url
    repo_email,   \* Option: the repository's local user.email
    repo_name,    \* Option: the repository's local user.name
    analysis,     \* Option: the (suggested_account, account_confidence) computed
    \* command-line invocations
    toml_file,    \* content of ~/.git-switch-config.toml
    json_file,    \* content of ~/.git-switch-config.json (legacy)
    json_backup,  \* content of ~/.git-switch-config.json.backup
    at_start,     \* the three config files when the last invocation started
    at_load,      \* the three config files when its load_config had returned
    outcome,      \* the last invocation: command, arguments, configs, result
    invocations,  \* number of invocations run
    export_file,  \* the file written by the last `backup export`
    fresh_home,   \* the TOML config file of a second, initially empty home
    import_result, \* result of `backup import` of export_file in that home
    \* bulk operations on discovered repositories
    repos,            \* the local git configuration of each repository found
    discovered_repos, \* RepoManager.discovered_repos
    repos_before,     \* repos when the last bulk_apply started
    bulk,             \* the last bulk_apply since the discovery: arguments, result,
                      \* repositories applied to, repositories whose apply failed
    bulk_runs,
                      \* number of bulk_apply calls
    printed_repos,    \* what the last `repo discover` invocation listed
    \* switching the identity: `use <account>` and `account <account>`
    git_global,       \* user.name and user.email of the global git configuration
    git_local,        \* user.name, user.email, core.sshCommand of the repository
    switch,           \* the last switch: command, what the external commands did,
                      \* what add_ssh_key returned, the result at the top level
    switches,         \* number of switches run
    \* `remote --https` / `remote --ssh`
    origin_url,       \* the URL of the remote origin of the repository
    conversion,       \* the last remote command: flag, URL found, result
    conversions,      \* number of remote commands run
    \* two `add` invocations running at the same time
    con_pc,           \* where each of the two processes is
    con_name,         \* the account name each process adds
    con_path,         \* the path get_config_file_path gave each process
    con_mem,          \* the Config each process holds in memory
    con_ssh,          \* the SSH config text each process has read
    con_result,       \* the result each process reports
    last_saver,       \* the process whose save_config wrote the file last, or 0
    last_writer,      \* the process that wrote the TOML file last, or 0
    overlapped,       \* a write to the TOML file began while another was open
    \* one SSH config call, file system call by file system call
    st_pc,            \* the step the call has reached
    st_call,          \* the call: operation, account name, key path
    st_content,       \* the text the call holds in memory
    st_writes,        \* the writes to ~/.ssh/config the call has issued
    st_result,        \* what the call returned, and the step that failed
    \* profiles
    pf_accounts,      \* the names of the accounts stored in the config file
    pf_file,          \* the profiles persisted in profiles.toml
    pf_mgr,           \* the ProfileManager in memory: its Config and its profiles
    pf_last,          \* the last call: operation, result, the file before it
    \* the repository scan
    fs_link,          \* per directory: the directory link it holds, if any
    fs_git,           \* the directories that contain .git
    max_depth,        \* the scan's depth limit
    scan_pc,          \* "start", "scan" or "done"
    scan_stack,       \* the frames of find_git_repositories_recursive
    repositories,     \* the paths pushed so far, each with the directory it names
    deepest           \* the greatest depth at which a directory was examined

sshVars == <<ssh_config, before, last, calls>>

detVars == <<accounts, iter_order, remote_url, url_owner, repo_email, repo_name, analysis>>

backupVars == <<export_file, fresh_home, import_result>>

cliVars == <<toml_file, json_file, json_backup, at_start, at_load, outcome, invocations,
             backupVars>>

bulkVars == <<repos, discovered_repos, repos_before, bulk, bulk_runs, printed_repos>>

switchVars == <<git_global, git_local, switch, switches>>

remoteVars == <<origin_url, conversion, conversions>>

conVars == <<con_pc, con_name, con_path, con_mem, con_ssh, con_result, last_saver,
             last_writer, overlapped>>

\* The variables of the subsystems modelled after the first three.
stepVars == <<st_pc, st_call, st_content, st_writes, st_result>>

\* The variables of the subsystems modelled last.
profileVars == <<pf_accounts, pf_file, pf_mgr, pf_last>>

scanVars == <<fs_link, fs_git, max_depth, scan_pc, scan_stack, repositories, deepest>>

moreVars == <<stepVars, profileVars, scanVars>>

extraVars == <<bulkVars, switchVars, remoteVars, conVars, moreVars>>

vars == <<sshVars, detVars, cliVars, extraVars>>

\* Option<T>: None is the empty sequence, Some(v) the sequence holding v.
None == <<>>

Some(v) == <<v>>

\* Number of SSH-config calls explored from the initial file.
MaxCalls == 4

\* SSH config calls followed one file system call at a time.
MaxStepCalls == 2

\* ------------------------------------------------------------------------
\* String helpers (Rust std::str semantics on token sequences)
\* ------------------------------------------------------------------------

IsWhitespace(c) == c \in {" ", "\r", "\n", "\t"}

RECURSIVE TrimStart(_)
TrimStart(s) ==
    IF s = <<>> THEN <<>>
    ELSE IF IsWhitespace(Head(s)) THEN TrimStart(Tail(s)) ELSE s

RECURSIVE TrimEnd(_)
TrimEnd(s) ==
    IF s = <<>> THEN <<>>
    ELSE IF IsWhitespace(s[Len(s)]) THEN TrimEnd(SubSeq(s, 1, Len(s) - 1)) ELSE s

\* str::trim
Trim(s) == TrimEnd(TrimStart(s))

\* str::starts_with
StartsWith(s, p) == Len(s) >= Len(p) /\ SubSeq(s, 1, Len(p)) = p

\* str::contains
Contains(s, p) == \E i \in 0..(Len(s) - Len(p)) : SubSeq(s, i + 1, i + Len(p)) = p

\* One line as str::lines yields it: the terminating "\n" is dropped, and a
\* "\r" right before that "\n" is dropped with it.
StripLineEnding(piece) ==
    IF piece # <<>> /\ piece[Len(piece)] = "\n"
    THEN LET l == SubSeq(piece, 1, Len(piece) - 1)
         IN  IF l # <<>> /\ l[Len(l)] = "\r" THEN SubSeq(l, 1, Len(l) - 1) ELSE l
    ELSE piece

\* Index of the first "\n" of s, 0 when there is none.
RECURSIVE FirstNewline(_, _)
FirstNewline(s, i) ==
    IF i > Len(s) THEN 0
    ELSE IF s[i] = "\n" THEN i ELSE FirstNewline(s, i + 1)

\* str::lines
RECURSIVE Lines(_)
Lines(s) ==
    IF s = <<>> THEN <<>>
    ELSE LET n == FirstNewline(s, 1)
         IN  IF n = 0 THEN <<StripLineEnding(s)>>
             ELSE <<StripLineEnding(SubSeq(s, 1, n))>> \o Lines(SubSeq(s, n + 1, Len(s)))

\* [String]::join("\n")
RECURSIVE JoinLines(_)
JoinLines(ls) ==
    IF ls = <<>> THEN <<>>
    ELSE IF Len(ls) = 1 THEN ls[1]
    ELSE ls[1] \o <<"\n">> \o JoinLines(Tail(ls))

\* str::to_lowercase on the characters account names are made of
LowerChar(c) == IF c = "W" THEN "w" ELSE c

ToLowercase(s) == [i \in 1..Len(s) |-> LowerChar(s[i])]

\* str::replace(" ", "_")
ReplaceSpaces(s) == [i \in 1..Len(s) |-> IF s[i] = " " THEN "_" ELSE s[i]]

\* ------------------------------------------------------------------------
\* Inputs of the SSH config manager
\* ------------------------------------------------------------------------

\* Account names, all accepted by validate_account_name: "w", "W", "w2",
\* "w 2", "x".
AccountNames == { <<"w">>, <<"W">>, <<"w", "2">>, <<"w", " ", "2">>, <<"x">> }

\* Key paths as the callers pass them: "/k1" and "~/k2".
KeyPaths == { <<"/", "k1">>, <<"~", "/", "k2">> }

\* home::home_dir() of the modelled user: "/home".
HomeDir == <<"/", "home">>

\* The SSH config file does not exist.
NoFile == <<"<no file>">>

\* What read_file_content returns for the file, "" when it is absent
\* (update_ssh_config's String::new()).
Text(file) == IF file = NoFile THEN <<>> ELSE file

\* Contents a user (not this tool) left in ~/.ssh/config.
UserConfigs ==
    { NoFile,
      <<"Host", " ", "example.com", "\r", "\n", " ", " ", "User git", "\r", "\n">>,
      <<"#", " ", "x", "\n", "Host", " ", "example.com", "\n", " ", " ", "User git">> }

\* ------------------------------------------------------------------------
\* utils.rs / ssh.rs
\* ------------------------------------------------------------------------

expand_path(path_str) ==
    IF path_str # <<>> /\ Head(path_str) = "~"
    THEN IF Len(path_str) > 1
         THEN LET rest == Tail(path_str)
              IN  IF Head(rest) = "/"
                  THEN IF Len(rest) > 1 THEN HomeDir \o <<"/">> \o Tail(rest) ELSE HomeDir
                  ELSE HomeDir \o <<"/">> \o rest
         ELSE HomeDir
    ELSE path_str

\* format!("github.com-{}", account_name.replace(" ", "_").to_lowercase())
host_alias(account_name) == <<"github.com-">> \o ToLowercase(ReplaceSpaces(account_name))

\* format!("Host {}", host_alias)
host_marker(account_name) == <<"Host", " ">> \o host_alias(account_name)

\* format!("# {} GitHub Account (git-switch managed)", account_name)
comment_marker(account_name) ==
    <<"#", " ">> \o account_name \o <<" ", "GitHub Account (git-switch managed)">>

\* The four directive lines of a stanza.
DirectiveLines(identity_file_display) ==
    << <<" ", " ", "Host", "Name github.com">>,
       <<" ", " ", "User git">>,
       <<" ", " ", "IdentityFile", " ">> \o identity_file_display,
       <<" ", " ", "IdentitiesOnly yes">> >>

\* The six lines of the stanza update_ssh_config writes for an account.
StanzaLines(account_name, identity_file_display) ==
    <<comment_marker(account_name), host_marker(account_name)>>
        \o DirectiveLines(identity_file_display)

\* let config_entry = format!("\n# {} ...\nHost {}\n ... IdentitiesOnly yes\n", ...)
config_entry(account_name, identity_file_display) ==
    <<"\n">> \o JoinLines(StanzaLines(account_name, identity_file_display)) \o <<"\n">>

\* The duplicate check looking for the alias without its normalisation.
has_host_entry_raw_name(current_config, account_name) ==
    Contains(current_config, <<"Host", " ", "github.com-">> \o account_name)

\* current_config.contains(&format!("Host {}", host_alias))
has_host_entry(current_config, account_name) ==
    Contains(current_config, host_marker(account_name))

\* The entry put in front of the existing content.
push_entry_in_front(current_config, entry) == entry \o current_config

\* current_config.push_str(&config_entry)
push_entry(current_config, entry) == current_config \o entry

\* update_ssh_config without its duplicate check.
updated_config_unchecked(file, account_name, identity_file_path_str) ==
    push_entry(Text(file), config_entry(account_name, expand_path(identity_file_path_str)))

\* The content update_ssh_config leaves in the file (the file itself when the
\* duplicate check returns early and nothing is written).
updated_config(file, account_name, identity_file_path_str) ==
    LET current_config == Text(file)
        display == expand_path(identity_file_path_str)
    IN  IF has_host_entry(current_config, account_name)
        THEN file
        ELSE push_entry(current_config, config_entry(account_name, display))

\* The for loop of remove_ssh_config_entry: the lines that are kept.
RECURSIVE remove_scan(_, _, _)
remove_scan(lines, in_matching_block, account_name) ==
    IF lines = <<>> THEN <<>>
    ELSE LET line == Head(lines)
             t == Trim(line)
         IN  IF t = comment_marker(account_name) \/ StartsWith(t, host_marker(account_name))
             THEN remove_scan(Tail(lines), TRUE, account_name)
             ELSE IF in_matching_block
                     /\ (StartsWith(t, <<"Host", " ">>) \/ StartsWith(t, <<"#", " ">>))
             THEN <<line>> \o remove_scan(Tail(lines), FALSE, account_name)
             ELSE IF ~in_matching_block
             THEN <<line>> \o remove_scan(Tail(lines), FALSE, account_name)
             ELSE remove_scan(Tail(lines), TRUE, account_name)

\* new_content_lines.join("\n")
new_content(original_content, account_name) ==
    JoinLines(remove_scan(Lines(original_content), FALSE, account_name))

\* The content remove_ssh_config_entry leaves in the file.
removed_config(file, account_name) ==
    IF file = NoFile THEN NoFile
    ELSE LET new == new_content(file, account_name)
         IN  IF Trim(new) = Trim(file) THEN file ELSE new

\* ------------------------------------------------------------------------
\* The SSH config manager as a state machine: one call per step
\* ------------------------------------------------------------------------

NoCall == [op |-> "none", name |-> <<>>, path |-> <<>>, res |-> "Ok", rep |-> "no"]

\* "wrote"/"kept": the call before this one was the same call with the same
\* arguments, returned Ok, and did / did not change the file.
Repeats(op, name, path) ==
    IF last.op = op /\ last.name = name /\ last.path = path /\ last.res = "Ok"
    THEN (IF ssh_config # before THEN "wrote" ELSE "kept")
    ELSE "no"

\* The parts of the state a specification does not use stay as they are here.
SshIdle ==
    /\ ssh_config = NoFile
    /\ before = NoFile
    /\ last = NoCall
    /\ calls = 0

DetIdle ==
    /\ accounts = <<>>
    /\ iter_order = <<>>
    /\ remote_url = None
    /\ url_owner = <<>>
    /\ repo_email = None
    /\ repo_name = None
    /\ analysis = None

\* Config::default(): the derived Default gives no accounts and an empty
\* version string.
DefaultConfig == [accounts |-> <<>>, version |-> ""]

\* What a configuration file holds: nothing (the file is missing), text that
\* neither parser accepts, or a document with the accounts table and the
\* optional version key.
Document(accs, version) ==
    [exists |-> TRUE, parses |-> TRUE, accounts |-> accs, version |-> version]

NoConfigFile == [exists |-> FALSE, parses |-> FALSE, accounts |-> <<>>, version |-> None]

Corrupt == [exists |-> TRUE, parses |-> FALSE, accounts |-> <<>>, version |-> None]

NoDisk == [toml |-> NoConfigFile, json |-> NoConfigFile, backup |-> NoConfigFile]

NoInvocation ==
    [cmd |-> "none", name |-> <<>>, username |-> <<>>, email |-> <<>>,
     loaded |-> DefaultConfig, config |-> DefaultConfig, result |-> "Ok"]

\* No export file: nothing has been exported.
NoExport ==
    [exists |-> FALSE, path |-> <<>>, syntax |-> "none", accounts |-> <<>>, version |-> None]

BackupIdle ==
    /\ export_file = NoExport
    /\ fresh_home = NoConfigFile
    /\ import_result = "none"

CliIdle ==
    /\ BackupIdle
    /\ toml_file = NoConfigFile
    /\ json_file = NoConfigFile
    /\ json_backup = NoConfigFile
    /\ at_start = NoDisk
    /\ at_load = NoDisk
    /\ outcome = NoInvocation
    /\ invocations = 0

NoBulk ==
    [dry_run |-> FALSE, force |-> FALSE, result |-> "none", applied |-> {}, failed |-> {}]

BulkIdle ==
    /\ repos = <<>>
    /\ discovered_repos = <<>>
    /\ repos_before = <<>>
    /\ bulk = NoBulk
    /\ bulk_runs = 0
    /\ printed_repos = <<>>

NoIdentity == [user_name |-> None, user_email |-> None, ssh_command |-> None]

\* No child process was started.
NotRun == [spawned |-> FALSE, status |-> "not run", stderr |-> <<>>]

NoSwitch ==
    [cmd |-> "none", git_name |-> "not run", git_email |-> "not run",
     ssh_add |-> NotRun, add_ssh_key |-> "not called", result |-> "Ok"]

SwitchIdle ==
    /\ git_global = NoIdentity
    /\ git_local = NoIdentity
    /\ switch = NoSwitch
    /\ switches = 0

NoConversion == [flag |-> "none", url |-> <<>>, result |-> "Ok"]

RemoteIdle ==
    /\ origin_url = <<>>
    /\ conversion = NoConversion
    /\ conversions = 0

ConIdle ==
    /\ con_pc = <<>>
    /\ con_name = <<>>
    /\ con_path = <<>>
    /\ con_mem = <<>>
    /\ con_ssh = <<>>
    /\ con_result = <<>>
    /\ last_saver = 0
    /\ last_writer = 0
    /\ overlapped = FALSE

NoStepCall == [op |-> "none", name |-> <<>>, path |-> <<>>]

NoStepResult == [res |-> "running", failed |-> "none"]

StepIdle ==
    /\ st_pc = "idle"
    /\ st_call = NoStepCall
    /\ st_content = <<>>
    /\ st_writes = 0
    /\ st_result = NoStepResult

NoManager == [config |-> {}, profiles |-> <<>>]

NoProfileCall == [op |-> "none", res |-> "Ok", file |-> <<>>]

ProfileIdle ==
    /\ pf_accounts = {}
    /\ pf_file = <<>>
    /\ pf_mgr = NoManager
    /\ pf_last = NoProfileCall

ScanIdle ==
    /\ fs_link = <<>>
    /\ fs_git = {}
    /\ max_depth = 0
    /\ scan_pc = "done"
    /\ scan_stack = <<>>
    /\ repositories = <<>>
    /\ deepest = 0

MoreIdle == StepIdle /\ ProfileIdle /\ ScanIdle

ExtraIdle == BulkIdle /\ SwitchIdle /\ RemoteIdle /\ ConIdle /\ MoreIdle

SshInit ==
    /\ DetIdle
    /\ CliIdle
    /\ ExtraIdle
    /\ ssh_config \in UserConfigs
    /\ before = ssh_config
    /\ last = NoCall
    /\ calls = 0

\* update_ssh_config(account_name, identity_file_path_str) returning Ok
UpdateSshConfig(account_name, identity_file_path_str) ==
    /\ calls < MaxCalls
    /\ ssh_config' = updated_config(ssh_config, account_name, identity_file_path_str)
    /\ before' = ssh_config
    /\ last' = [op |-> "update", name |-> account_name, path |-> identity_file_path_str,
                res |-> "Ok", rep |-> Repeats("update", account_name, identity_file_path_str)]
    /\ calls' = calls + 1
    /\ UNCHANGED <<detVars, cliVars, extraVars>>

\* remove_ssh_config_entry(account_name) returning Ok
RemoveSshConfigEntry(account_name) ==
    /\ calls < MaxCalls
    /\ ssh_config' = removed_config(ssh_config, account_name)
    /\ before' = ssh_config
    /\ last' = [op |-> "remove", name |-> account_name, path |-> <<>>,
                res |-> "Ok", rep |-> Repeats("remove", account_name, <<>>)]
    /\ calls' = calls + 1
    /\ UNCHANGED <<detVars, cliVars, extraVars>>

\* Either call failing before its write: the home directory cannot be
\* resolved, the parent directory cannot be created or the file cannot be
\* read (the ? operators of ssh.rs 116-118, 133, 201, 210).
SshCallFails(op) ==
    /\ calls < MaxCalls
    /\ last' = [op |-> op, name |-> <<>>, path |-> <<>>, res |-> "Err", rep |-> "no"]
    /\ before' = ssh_config
    /\ calls' = calls + 1
    /\ UNCHANGED <<ssh_config, detVars, cliVars, extraVars>>

SshNext ==
    \/ \E a \in AccountNames, p \in KeyPaths : UpdateSshConfig(a, p)
    \/ \E a \in AccountNames : RemoveSshConfigEntry(a)
    \/ \E op \in {"update", "remove"} : SshCallFails(op)

SpecSsh == SshInit /\ [][SshNext]_vars

\* ------------------------------------------------------------------------
\* Claims about the SSH config manager (checked under SpecSsh)
\* ------------------------------------------------------------------------

BeforeLines == Lines(Text(before))

AfterLines == Lines(Text(ssh_config))

\* ls[i..] starts with the six lines of a stanza written for account a.
StanzaAt(ls, i, a) ==
    /\ i + 5 <= Len(ls)
    /\ ls[i] = comment_marker(a)
    /\ ls[i + 1] = host_marker(a)
    /\ \E p \in KeyPaths : SubSeq(ls, i + 2, i + 5) = DirectiveLines(expand_path(p))

\* The lines sub occur in ls, in this order and next to each other.
HasLines(ls, sub) ==
    \E i \in 0..(Len(ls) - Len(sub)) : SubSeq(ls, i + 1, i + Len(sub)) = sub

\* The positions of the managed stanza heads of account a: its managed
\* comment line directly followed by its Host line.
ManagedStanzas(ls, a) ==
    { i \in 1..(Len(ls) - 1) :
        Trim(ls[i]) = comment_marker(a) /\ Trim(ls[i + 1]) = host_marker(a) }

\* No line of the text is account a's managed comment or a's Host line.
NoBlockFor(ls, a) ==
    \A i \in 1..Len(ls) : Trim(ls[i]) # comment_marker(a) /\ Trim(ls[i]) # host_marker(a)

\* C1: calling update_ssh_config(A, p) twice in a row leaves the file after
\* the second call identical to the file after the first call.
C1_UpdateTwiceSameContent ==
    (last.op = "update" /\ last.rep # "no") => ssh_config = before

\* C1 witness: the first of the two calls appended A's stanza, the second
\* found it.
C1_Witness ==
    /\ last.op = "update" /\ last.rep = "wrote"
    /\ ssh_config = before
    /\ ManagedStanzas(AfterLines, last.name) # {}

\* C2: remove_ssh_config_entry(A) leaves the stanzas of other accounts B
\* (before A's stanza) and C (after A's stanza) line for line as they were.
C2_RemoveKeepsNeighbourStanzas ==
    last.op = "remove" /\ last.res = "Ok" =>
        \A j \in 1..Len(BeforeLines) :
            StanzaAt(BeforeLines, j, last.name) =>
                \A b \in AccountNames \ {last.name}, c \in AccountNames \ {last.name} :
                    \A i \in 1..(j - 1), k \in (j + 1)..Len(BeforeLines) :
                        StanzaAt(BeforeLines, i, b) /\ StanzaAt(BeforeLines, k, c) =>
                            /\ HasLines(AfterLines, SubSeq(BeforeLines, i, i + 5))
                            /\ HasLines(AfterLines, SubSeq(BeforeLines, k, k + 5))

\* C3: after update_ssh_config(A, p) returns Ok the file has a line that is
\* exactly "Host github.com-<alias(A)>"; when no such line existed before the
\* call, a new stanza for A was appended at the end of the file.
C3_UpdateLeavesHostLine ==
    last.op = "update" /\ last.res = "Ok" =>
        /\ \E i \in 1..Len(AfterLines) : AfterLines[i] = host_marker(last.name)
        /\ (\A i \in 1..Len(BeforeLines) : BeforeLines[i] # host_marker(last.name)) =>
               Text(ssh_config) =
                   Text(before) \o config_entry(last.name, expand_path(last.path))

\* C4: from a file without managed stanzas, after any sequence of
\* update_ssh_config and remove_ssh_config_entry calls the file holds at most
\* one managed stanza (managed comment line plus Host line) per account name.
C4_OneStanzaPerAccount ==
    LET ls == AfterLines
    IN  \A a \in AccountNames : Cardinality(ManagedStanzas(ls, a)) <= 1

\* C4 witness: update_ssh_config was called for an account whose stanza was
\* already in a file with another account's stanza, and it still has one.
C4_Witness ==
    /\ last.op = "update" /\ last.res = "Ok"
    /\ Cardinality(ManagedStanzas(BeforeLines, last.name)) = 1
    /\ Cardinality(ManagedStanzas(AfterLines, last.name)) = 1
    /\ \E b \in AccountNames \ {last.name} : ManagedStanzas(AfterLines, b) # {}

\* C5: remove_ssh_config_entry(A) called when no block for A is present
\* (also a missing file, also the second of two calls in a row) returns Ok
\* and leaves the file content unchanged.
C5_RemoveAbsentKeepsContent ==
    (last.op = "remove" /\ last.res = "Ok" /\ NoBlockFor(BeforeLines, last.name)) =>
        ssh_config = before

RepoAccountNames == {"work", "home"}

Usernames == { <<"alice">>, <<"Alice">>, <<"bob">> }

Providers == {"github", "GitHub", "gitlab", "bitbucket"}

AccountEmail(name) == IF name = "work" THEN "work@corp" ELSE "me@home"

\* config::Account (the fields the analysis reads)
AccountRecords ==
    { r \in [name : RepoAccountNames, username : Usernames,
             email : {AccountEmail(n) : n \in RepoAccountNames},
             provider : {None} \cup {Some(p) : p \in Providers}] :
        r.email = AccountEmail(r.name) }

\* Config.accounts: HashMap<String, Account>, keyed by the account's name
AccountMaps ==
    { m \in UNION { [S -> AccountRecords] : S \in SUBSET RepoAccountNames } :
        \A n \in DOMAIN m : m[n].name = n }

\* The orders in which a HashMap may yield its keys.
IterationOrders(keys) ==
    { o \in [1..Cardinality(keys) -> keys] : \A i, j \in DOMAIN o : o[i] = o[j] => i = j }

UrlHosts == {"github.com", "GitHub.com", "gitlab.com", "bitbucket.org", "example.org"}

UrlOwners == {"alice", "Alice", "bob"}

\* scheme://host/owner/repo and user@host:owner/repo
RemoteUrl(form, host, owner) ==
    IF form = "https" THEN <<"https://", host, "/", owner, "/", "repo.git">>
    ELSE <<"git@", host, ":", owner, "/", "repo.git">>

\* str::to_lowercase on a remote URL
UrlLowerToken(t) ==
    IF t = "Alice" THEN "alice" ELSE IF t = "GitHub.com" THEN "github.com" ELSE t

url_to_lowercase(url) == [i \in 1..Len(url) |-> UrlLowerToken(url[i])]

\* String::to_lowercase on a provider name
provider_to_lowercase(p) == IF p = "GitHub" THEN "github" ELSE p

\* str::find: the index of the first occurrence of token c, 0 for None
Find(s, c) ==
    LET I == {i \in 1..Len(s) : s[i] = c}
    IN  IF I = {} THEN 0 ELSE CHOOSE i \in I : \A j \in I : i <= j

\* extract_github_username, extract_gitlab_username and
\* extract_bitbucket_username: the same code for three domains
extract_username(url, domain) ==
    LET start == Find(url, domain)
    IN  IF start = 0 THEN None
        ELSE LET after == SubSeq(url, start + 1, Len(url))
                 colon_pos == Find(after, ":")
             IN  IF colon_pos # 0
                 THEN LET path_part == SubSeq(after, colon_pos + 1, Len(after))
                          slash_pos == Find(path_part, "/")
                      IN  IF slash_pos # 0
                          THEN Some(SubSeq(path_part, 1, slash_pos - 1))
                          ELSE None
                 ELSE LET slash_pos == Find(after, "/")
                      IN  IF slash_pos # 0
                          THEN LET path_part == SubSeq(after, slash_pos + 1, Len(after))
                                   next_slash == Find(path_part, "/")
                               IN  IF next_slash # 0
                                   THEN Some(SubSeq(path_part, 1, next_slash - 1))
                                   ELSE None
                          ELSE None

extract_github_username(url) == extract_username(url, "github.com")

extract_gitlab_username(url) == extract_username(url, "gitlab.com")

extract_bitbucket_username(url) == extract_username(url, "bitbucket.org")

\* One `for (account_name, account) in &config.accounts` loop of
\* detect_account_for_remote_url: per account, the provider test and then
\* the username test; the first account passing either is returned.
RECURSIVE detect_in_accounts(_, _, _, _)
detect_in_accounts(order, accs, provider, url_user) ==
    IF order = <<>> THEN None
    ELSE LET account == accs[Head(order)]
         IN  IF account.provider # None
                /\ provider_to_lowercase(account.provider[1]) = provider
             THEN Some(Head(order))
             ELSE IF url_user # None /\ account.username = url_user[1]
             THEN Some(Head(order))
             ELSE detect_in_accounts(Tail(order), accs, provider, url_user)

detect_account_for_remote_url(accs, order, url) ==
    LET u == url_to_lowercase(url)
        github == IF Contains(u, <<"github.com">>)
                  THEN detect_in_accounts(order, accs, "github", extract_github_username(u))
                  ELSE None
        gitlab == IF Contains(u, <<"gitlab.com">>)
                  THEN detect_in_accounts(order, accs, "gitlab", extract_gitlab_username(u))
                  ELSE None
        bitbucket == IF Contains(u, <<"bitbucket.org">>)
                     THEN detect_in_accounts(order, accs, "bitbucket",
                                             extract_bitbucket_username(u))
                     ELSE None
    IN  IF github # None THEN github
        ELSE IF gitlab # None THEN gitlab
        ELSE bitbucket

\* Confidences are f32 in the code and thousandths here: 0.9 is 900.
UrlConfidence == 900

EmailWeight == 600

NameWeight == 400

\* Mutation of account_score: the weights that matched are summed and not
\* scaled by matches / total_checks.
account_score_unscaled(account, email, name) ==
    (IF email # None /\ email[1] = account.email THEN EmailWeight ELSE 0)
        + (IF name # None /\ name[1] = account.name THEN NameWeight ELSE 0)

\* The body of the loop of find_matching_account_by_user for one account:
\* its confidence, and whether any check was performed.
account_score(account, email, name) ==
    LET email_hit == email # None /\ email[1] = account.email
        name_hit == name # None /\ name[1] = account.name
        total_checks == (IF email # None THEN 1 ELSE 0) + (IF name # None THEN 1 ELSE 0)
        matches == (IF email_hit THEN 1 ELSE 0) + (IF name_hit THEN 1 ELSE 0)
        confidence == (IF email_hit THEN EmailWeight ELSE 0)
                          + (IF name_hit THEN NameWeight ELSE 0)
    IN  IF total_checks > 0 THEN (confidence * matches) \div total_checks ELSE 0

\* Mutation of best_account: an account replaces the best one when its
\* confidence is at least as high (>= for >).
RECURSIVE best_account_ties(_, _, _, _, _, _)
best_account_ties(order, accs, email, name, best_match, best_confidence) ==
    IF order = <<>> THEN <<best_match, best_confidence>>
    ELSE LET confidence == account_score(accs[Head(order)], email, name)
         IN  IF confidence >= best_confidence
             THEN best_account_ties(Tail(order), accs, email, name, Some(Head(order)), confidence)
             ELSE best_account_ties(Tail(order), accs, email, name, best_match, best_confidence)

RECURSIVE best_account(_, _, _, _, _, _)
best_account(order, accs, email, name, best_match, best_confidence) ==
    IF order = <<>> THEN <<best_match, best_confidence>>
    ELSE LET confidence == account_score(accs[Head(order)], email, name)
         IN  IF confidence > best_confidence
             THEN best_account(Tail(order), accs, email, name, Some(Head(order)), confidence)
             ELSE best_account(Tail(order), accs, email, name, best_match, best_confidence)

find_matching_account_by_user(accs, order, email, name) ==
    best_account(order, accs, email, name, None, 0)

\* The (suggested_account, account_confidence) of analyze_current_repository
suggest_account(accs, order, url, email, name) ==
    IF url # None
    THEN LET detected == detect_account_for_remote_url(accs, order, url[1])
         IN  IF detected # None THEN <<detected, UrlConfidence>>
             ELSE find_matching_account_by_user(accs, order, email, name)
    ELSE find_matching_account_by_user(accs, order, email, name)

DetInit ==
    /\ SshIdle
    /\ CliIdle
    /\ ExtraIdle
    /\ accounts \in AccountMaps
    /\ iter_order \in IterationOrders(DOMAIN accounts)
    /\ \/ remote_url = None /\ url_owner = <<>>
       \/ \E form \in {"https", "ssh"}, host \in UrlHosts, owner \in UrlOwners :
              /\ remote_url = Some(RemoteUrl(form, host, owner))
              /\ url_owner = <<owner>>
    /\ repo_email \in {None, Some("work@corp")}
    /\ repo_name \in {None, Some("work"), Some("home"), Some("alice")}
    /\ analysis = None

\* RepoManager::analyze_current_repository on one repository
AnalyzeCurrentRepository ==
    /\ analysis = None
    /\ LET r == suggest_account(accounts, iter_order, remote_url, repo_email, repo_name)
       IN  analysis' = Some([suggested_account |-> r[1], account_confidence |-> r[2]])
    /\ UNCHANGED <<accounts, iter_order, remote_url, url_owner, repo_email, repo_name>>
    /\ UNCHANGED <<sshVars, cliVars, extraVars>>

DetNext == AnalyzeCurrentRepository

SpecDetect == DetInit /\ [][DetNext]_vars

\* ------------------------------------------------------------------------
\* Claims about repository analysis (checked under SpecDetect)
\* ------------------------------------------------------------------------

\* The provider a remote URL classifies to: the first known hosting domain
\* its text contains, compared without regard to case.
Classified(url) ==
    LET u == url_to_lowercase(url)
    IN  IF Contains(u, <<"github.com">>) THEN Some("github")
        ELSE IF Contains(u, <<"gitlab.com">>) THEN Some("gitlab")
        ELSE IF Contains(u, <<"bitbucket.org">>) THEN Some("bitbucket")
        ELSE None

\* The stored accounts whose provider is p, compared without regard to case.
WithProvider(p) ==
    { n \in DOMAIN accounts :
        accounts[n].provider # None /\ provider_to_lowercase(accounts[n].provider[1]) = p }

\* The stored accounts whose username is the owner segment of the URL.
WithOwnerUsername == { n \in DOMAIN accounts : accounts[n].username = url_owner }

\* C9: when the remote URL classifies to a provider P and some stored account
\* has provider P, the match returns an account whose provider is P with
\* confidence 0.9, whatever owner/username matches there are.
C9_ProviderMatchFirst ==
    (analysis # None /\ remote_url # None /\ Classified(remote_url[1]) # None
       /\ WithProvider(Classified(remote_url[1])[1]) # {}) =>
        /\ analysis[1].suggested_account # None
        /\ analysis[1].suggested_account[1] \in WithProvider(Classified(remote_url[1])[1])
        /\ analysis[1].account_confidence = UrlConfidence

\* C10: when the remote URL classifies to a provider, no account has that
\* provider and some account's username equals the owner segment of the URL
\* (either URL form), the match returns that account with confidence 0.9.
C10_OwnerMatch ==
    (analysis # None /\ remote_url # None /\ Classified(remote_url[1]) # None
       /\ WithProvider(Classified(remote_url[1])[1]) = {}
       /\ WithOwnerUsername # {}) =>
        /\ analysis[1].suggested_account # None
        /\ analysis[1].suggested_account[1] \in WithOwnerUsername
        /\ analysis[1].account_confidence = UrlConfidence

\* The analysis took the fallback: there is no remote URL, or no URL rule
\* gave an account.
UsedFallback ==
    /\ analysis # None
    /\ \/ remote_url = None
       \/ detect_account_for_remote_url(accounts, iter_order, remote_url[1]) = None

\* The score of stored account n as the specification words it, in
\* thousandths: the weights matched, times matches over checks performed.
MatchedWeights(n) ==
    (IF repo_email = Some(accounts[n].email) THEN EmailWeight ELSE 0)
        + (IF repo_name = Some(accounts[n].name) THEN NameWeight ELSE 0)

Matches(n) ==
    Cardinality({ k \in {"email", "name"} :
        \/ k = "email" /\ repo_email = Some(accounts[n].email)
        \/ k = "name" /\ repo_name = Some(accounts[n].name) })

ChecksPerformed ==
    Cardinality({ k \in {"email", "name"} :
        \/ k = "email" /\ repo_email # None
        \/ k = "name" /\ repo_name # None })

FallbackScore(n) ==
    IF ChecksPerformed = 0 THEN 0 ELSE (MatchedWeights(n) * Matches(n)) \div ChecksPerformed

\* C11: in the fallback match the returned confidence is the maximum over
\* the stored accounts of (0.6 for an equal e-mail + 0.4 for an equal name)
\* times matches / checks performed, a returned account has that score, a
\* matching e-mail alone scores 0.6, and a matching e-mail next to a name
\* that does not match scores 0.3.
C11_FallbackScore ==
    UsedFallback =>
        LET s == analysis[1].suggested_account
            c == analysis[1].account_confidence
        IN  /\ \A n \in DOMAIN accounts : FallbackScore(n) <= c
            /\ s # None => s[1] \in DOMAIN accounts /\ FallbackScore(s[1]) = c
            /\ s = None => c = 0
            /\ \A n \in DOMAIN accounts :
                  /\ (repo_name = None /\ repo_email = Some(accounts[n].email))
                        => FallbackScore(n) = 600
                  /\ (repo_name # None /\ repo_name # Some(accounts[n].name)
                        /\ repo_email = Some(accounts[n].email))
                        => FallbackScore(n) = 300

\* The fallback chose between two accounts with different positive scores:
\* one matched by e-mail only (0.3), the other by name only (0.2).
C11_Witness ==
    /\ UsedFallback
    /\ analysis[1].suggested_account # None
    /\ analysis[1].account_confidence = 300
    /\ \E n \in DOMAIN accounts : FallbackScore(n) = 200

\* C12: the suggested account is None exactly when the confidence is 0.0;
\* the result is (None, 0.0) whenever no URL rule applies and no account
\* matches by e-mail or name; every confidence lies in [0.0, 1.0].
C12_NoneIffZero ==
    analysis # None =>
        /\ analysis[1].suggested_account = None <=> analysis[1].account_confidence = 0
        /\ (UsedFallback /\ \A n \in DOMAIN accounts : Matches(n) = 0)
              => analysis[1] = [suggested_account |-> None, account_confidence |-> 0]
        /\ analysis[1].account_confidence \in 0..1000

\* Accounts are stored and both repository values are present, yet none of
\* them matches and no URL rule applies: the analysis gave (None, 0.0).
C12_Witness ==
    /\ UsedFallback
    /\ DOMAIN accounts # {}
    /\ repo_email # None /\ repo_name # None
    /\ \A n \in DOMAIN accounts : Matches(n) = 0
    /\ analysis[1].suggested_account = None

\* ------------------------------------------------------------------------
\* Command-line invocations: the configuration store (config.rs), the
\* input validation (validation.rs), the account commands (commands.rs)
\* and the command dispatch of run_cli (main.rs).
\*
\* A configuration file is NoConfigFile, Corrupt or a Document.
\* GlobalSettings is written and read back unchanged by every command below
\* and is left out.
\* ------------------------------------------------------------------------

MaxInvocations == 2

\* name.len() > 50 and username.len() > 100 are the rejected lengths.
MaxAccountNameLen == 50

MaxUsernameLen == 100

\* Arguments given on the command line.  "w." holds a character that
\* validate_account_name rejects; the empty username and the e-mail without
\* an "@" are rejected by validate_username and validate_email.
CliNames == { <<"w">>, <<"W">>, <<"w", "2">>, <<"w", ".">> }

CliUsernames == { <<"alice">>, <<>> }

CliEmails == { <<"a", "@", "corp.com">>, <<"b", "@", "github.com">>, <<"a">> }

\* One known template and one unknown one; the account a template creates
\* is given a username and an e-mail no add command of the model uses.
TemplateNames == {"github", "nope"}

TemplateUsername == <<"bob">>

TemplateEmail == <<"c", "@", "gitlab.com">>

\* The e-mails given to `template use`: TemplateEmail, and one that is no
\* e-mail address.
TemplateEmails == { TemplateEmail, <<"c">> }

Answers == {"no_prompt", "yes", "no"}

\* str::len() of a token sequence: the multi-character tokens count their bytes.
TokenLen(t) ==
    CASE t = "alice" -> 5
      [] t = "bob" -> 3
      [] t = "corp.com" -> 8
      [] t = "github.com" -> 10
      [] t = "gitlab.com" -> 10
      [] OTHER -> 1

RECURSIVE StrLen(_)
StrLen(s) == IF s = <<>> THEN 0 ELSE TokenLen(Head(s)) + StrLen(Tail(s))

\* char::is_alphanumeric on the characters the names are built from.
IsAlphanumeric(c) == c \in {"w", "W", "x", "2"}

validate_account_name(name) ==
    /\ name # <<>>
    /\ StrLen(name) <= MaxAccountNameLen
    /\ \A i \in 1..Len(name) : IsAlphanumeric(name[i]) \/ name[i] \in {"-", "_", " "}

validate_username(username) ==
    /\ username # <<>>
    /\ StrLen(username) <= MaxUsernameLen

\* EmailAddress::is_valid on the modelled e-mails: local part, "@", domain.
validate_email(email) ==
    /\ Len(email) = 3
    /\ email[2] = "@"
    /\ email[1] # "@" /\ email[3] # "@"

detect_provider_from_email(email) ==
    IF \/ Contains(email, <<"@", "github.com">>)
       \/ Contains(email, <<"@", "users.noreply.github.com">>)
    THEN Some("github")
    ELSE IF Contains(email, <<"@", "gitlab.com">>) THEN Some("gitlab")
    ELSE IF Contains(email, <<"@", "bitbucket.org">>) THEN Some("bitbucket")
    ELSE None

\* ---- config.rs ----

default_config_version == "2.0"

\* toml::from_str / serde_json::from_str of a parseable document: a missing
\* version key takes the serde default.
from_str(content) ==
    [accounts |-> content.accounts,
     version  |-> IF content.version = None THEN default_config_version
                  ELSE content.version[1]]

\* toml::to_string_pretty: the version field is always written.
to_string_pretty(config) == Document(config.accounts, Some(config.version))

get_config_file_path(disk) ==
    IF disk.toml.exists THEN "toml"
    ELSE IF disk.json.exists THEN "json"
    ELSE "toml"

migrate_to_toml(config, disk) ==
    [toml   |-> to_string_pretty(config),
     json   |-> NoConfigFile,
     backup |-> IF disk.json.exists THEN disk.json ELSE disk.backup]

migrate_config(config) ==
    IF config.version = "" \/ config.version = "1.0"
    THEN [accounts |->
             [n \in DOMAIN config.accounts |->
                 LET account == config.accounts[n]
                 IN  IF account.provider = None
                     THEN IF Contains(account.email, <<"@", "github.com">>)
                          THEN [account EXCEPT !.provider = Some("github")]
                          ELSE IF Contains(account.email, <<"@", "gitlab.com">>)
                          THEN [account EXCEPT !.provider = Some("gitlab")]
                          ELSE account
                     ELSE account],
          version |-> "2.0"]
    ELSE config

\* The result of load_config and the files it leaves behind.
load_config(disk) ==
    LET config_path == get_config_file_path(disk)
        content == IF config_path = "toml" THEN disk.toml ELSE disk.json
    IN  IF ~content.exists
        THEN [result |-> "Ok", config |-> DefaultConfig, disk |-> disk]
        ELSE IF config_path = "toml"
        THEN IF ~content.parses
             THEN [result |-> "Toml", config |-> DefaultConfig, disk |-> disk]
             ELSE [result |-> "Ok", config |-> migrate_config(from_str(content)),
                   disk |-> disk]
        ELSE IF ~content.parses
             THEN [result |-> "Json", config |-> DefaultConfig, disk |-> disk]
             ELSE LET json_config == from_str(content)
                  IN  [result |-> "Ok", config |-> migrate_config(json_config),
                       disk |-> migrate_to_toml(json_config, disk)]

save_config(config, disk) == [disk EXCEPT !.toml = to_string_pretty(config)]

\* ---- templates.rs ----

get_template(template) ==
    IF template \in {"github", "gitlab", "bitbucket", "azure"}
    THEN Some([provider |-> template, default_ssh_key_name |-> <<"id_rsa_", template>>])
    ELSE None

create_account_from_template(name, username, email, template) ==
    [name         |-> name,
     username     |-> username,
     email        |-> email,
     ssh_key_path |-> <<"~", "/", ".ssh/">> \o template.default_ssh_key_name,
     provider     |-> Some(template.provider)]

\* ---- commands.rs ----

\* Mutation of insert: the map is left as it was.
insert_nothing(map, key, value) == map

insert(map, key, value) == (key :> value) @@ map

remove(map, key) == [k \in DOMAIN map \ {key} |-> map[k]]

default_key_path(name) ==
    <<"~", "/", ".ssh/id_rsa_">> \o ToLowercase(ReplaceSpaces(name))

\* Mutation of name_taken: the lookup compares the usernames of the stored
\* accounts instead of the keys of the map.
name_taken_by_username(config, name) ==
    \E k \in DOMAIN config.accounts : config.accounts[k].username = name

\* config.accounts.contains_key(name) in add_account.
name_taken(config, name) == name \in DOMAIN config.accounts

\* add_account without --ssh-key-path and --provider.  key_ok is the outcome
\* of the key step (generate_ssh_key, or validate_ssh_key on a key file that
\* is already there).  saved tells whether save_config and update_ssh_config
\* were reached.
add_account(config, name, username, email, key_ok) ==
    LET failed(error) == [result |-> error, config |-> config, saved |-> FALSE]
    IN  IF ~validate_account_name(name) THEN failed("Other")
        ELSE IF ~validate_username(username) THEN failed("Other")
        ELSE IF ~validate_email(email) THEN failed("InvalidEmail")
        ELSE IF name_taken(config, name) THEN failed("AccountExists")
        ELSE IF ~key_ok THEN failed("SshKeyGeneration")
        ELSE LET account == [name         |-> name,
                             username     |-> username,
                             email        |-> email,
                             ssh_key_path |-> default_key_path(name),
                             provider     |-> detect_provider_from_email(email)]
             IN  [result |-> "Ok",
                  config |-> [config EXCEPT !.accounts = insert(@, name, account)],
                  saved  |-> TRUE]

\* Mutation of account_missing: the early return is never taken.
account_missing_never(config, name) == FALSE

\* !config.accounts.contains_key(name) in remove_account.
account_missing(config, name) == name \notin DOMAIN config.accounts

\* remove_account; answer is "no_prompt" for --no-prompt, else the reply to
\* the confirmation.  removed tells whether remove_ssh_config_entry and
\* save_config were reached.
remove_account(config, name, answer) ==
    IF account_missing(config, name)
    THEN [result |-> "AccountNotFound", config |-> config, removed |-> FALSE]
    ELSE IF answer = "no"
    THEN [result |-> "Ok", config |-> config, removed |-> FALSE]
    ELSE [result |-> "Ok",
          config |-> [config EXCEPT !.accounts = remove(@, name)],
          removed |-> TRUE]

\* ---- main.rs: one invocation of the program ----

Disk == [toml |-> toml_file, json |-> json_file, backup |-> json_backup]

\* An account as an earlier release stored it: no provider key.
LegacyAccount ==
    [name         |-> <<"w">>,
     username     |-> <<"alice">>,
     email        |-> <<"b", "@", "github.com">>,
     ssh_key_path |-> default_key_path(<<"w">>),
     provider     |-> None]

LegacyAccounts == insert(<<>>, <<"w">>, LegacyAccount)

\* The configuration files the program can find when it starts: nothing, a
\* TOML file it saved, a legacy JSON file with or without a version key, a
\* file that does not parse, and a TOML file next to a legacy JSON file.
InitialDisks ==
    { NoDisk,
      [NoDisk EXCEPT !.toml = Document(LegacyAccounts, Some("2.0"))],
      [NoDisk EXCEPT !.json = Document(LegacyAccounts, Some("1.0"))],
      [NoDisk EXCEPT !.json = Document(LegacyAccounts, None)],
      [NoDisk EXCEPT !.toml = Corrupt],
      [NoDisk EXCEPT !.json = Corrupt],
      [NoDisk EXCEPT !.toml = Document(<<>>, Some("")),
                     !.json = Document(LegacyAccounts, Some("1.0"))] }

Stores(file, name) == name \in DOMAIN file.accounts

CliInit ==
    /\ DetIdle
    /\ ExtraIdle
    /\ \E disk \in InitialDisks :
          /\ toml_file = disk.toml
          /\ json_file = disk.json
          /\ json_backup = disk.backup
          /\ ssh_config = IF Stores(disk.toml, <<"w">>) \/ Stores(disk.json, <<"w">>)
                          THEN updated_config(NoFile, <<"w">>, default_key_path(<<"w">>))
                          ELSE NoFile
    /\ before = ssh_config
    /\ last = NoCall
    /\ calls = 0
    /\ at_start = Disk
    /\ at_load = Disk
    /\ outcome = NoInvocation
    /\ invocations = 0
    /\ BackupIdle

\* The state an invocation leaves: the files, and the record of what it did.
Finished(cmd, name, username, email, ld, result, config, disk, ssh) ==
    /\ toml_file' = disk.toml
    /\ json_file' = disk.json
    /\ json_backup' = disk.backup
    /\ ssh_config' = ssh
    /\ before' = ssh_config
    /\ at_start' = Disk
    /\ at_load' = ld.disk
    /\ outcome' = [cmd |-> cmd, name |-> name, username |-> username, email |-> email,
                   loaded |-> ld.config, config |-> config, result |-> result]
    /\ invocations' = invocations + 1
    /\ UNCHANGED <<last, calls, detVars, extraVars>>

\* git-switch add <name> <username> <email>
RunAdd(name, username, email, key_ok) ==
    /\ invocations < MaxInvocations
    /\ UNCHANGED backupVars
    /\ LET ld == load_config(Disk)
       IN  IF ld.result # "Ok"
           THEN Finished("add", name, username, email, ld, ld.result, ld.config,
                         ld.disk, ssh_config)
           ELSE LET r == add_account(ld.config, name, username, email, key_ok)
                IN  Finished("add", name, username, email, ld, r.result, r.config,
                             IF r.saved THEN save_config(r.config, ld.disk) ELSE ld.disk,
                             IF r.saved
                             THEN updated_config(ssh_config, name, default_key_path(name))
                             ELSE ssh_config)

\* Mutation of kept_after_ssh_failure: the file is put back as it was loaded.
rolled_back_after_ssh_failure(saved, loaded) == loaded

\* add_account when update_ssh_config fails: the ? returns the error, and
\* what save_config wrote before stays on disk.
kept_after_ssh_failure(saved, loaded) == saved

\* git-switch add <name> <username> <email> reaching update_ssh_config, which
\* fails before its write (the home directory, the parent directory or the
\* read of ~/.ssh/config).
RunAddSshFails(name, username, email) ==
    /\ invocations < MaxInvocations
    /\ UNCHANGED backupVars
    /\ LET ld == load_config(Disk)
           r == add_account(ld.config, name, username, email, TRUE)
       IN  /\ ld.result = "Ok"
           /\ r.saved
           /\ Finished("add", name, username, email, ld, "Io", r.config,
                       kept_after_ssh_failure(save_config(r.config, ld.disk), ld.disk),
                       ssh_config)

\* git-switch remove <name> [--no-prompt]
RunRemove(name, answer) ==
    /\ invocations < MaxInvocations
    /\ UNCHANGED backupVars
    /\ LET ld == load_config(Disk)
       IN  IF ld.result # "Ok"
           THEN Finished("remove", name, <<>>, <<>>, ld, ld.result, ld.config,
                         ld.disk, ssh_config)
           ELSE LET r == remove_account(ld.config, name, answer)
                IN  Finished("remove", name, <<>>, <<>>, ld, r.result, r.config,
                             IF r.removed THEN save_config(r.config, ld.disk) ELSE ld.disk,
                             IF r.removed THEN removed_config(ssh_config, name)
                             ELSE ssh_config)

\* git-switch template use <template> <name> <username> <email>
RunTemplateUse(template, name, username, email) ==
    /\ invocations < MaxInvocations
    /\ UNCHANGED backupVars
    /\ LET ld == load_config(Disk)
           tmpl == get_template(template)
       IN  IF ld.result # "Ok"
           THEN Finished("template", name, username, email, ld, ld.result, ld.config,
                         ld.disk, ssh_config)
           ELSE IF tmpl = None
           THEN Finished("template", name, username, email, ld, "Other", ld.config,
                         ld.disk, ssh_config)
           ELSE LET account == create_account_from_template(name, username, email, tmpl[1])
                    config == [ld.config EXCEPT !.accounts = insert(@, name, account)]
                IN  Finished("template", name, username, email, ld, "Ok", config,
                             save_config(config, ld.disk), ssh_config)

\* ---- backup.rs ----

ExportFormats == {"toml", "json"}

\* Export file paths: with the extension toml, with the extension json, and
\* without an extension.
ExportPaths == { <<"out", ".", "toml">>, <<"out", ".", "json">>, <<"out">> }

\* Path::extension: what follows the last dot of the file name, if any.
extension(path) ==
    IF Len(path) >= 3 /\ path[Len(path) - 1] = "." THEN Some(path[Len(path)]) ELSE None

\* The content export_accounts writes: the loaded configuration in the
\* syntax of the format argument.
exported(path, format, config) ==
    [exists |-> TRUE, path |-> path, syntax |-> format,
     accounts |-> config.accounts, version |-> Some(config.version)]

\* The parser import_accounts applies: TOML for the extension toml, JSON for
\* every other path.
import_parser(file) == IF extension(file.path) = Some("toml") THEN "toml" ELSE "json"

\* validate_config: the first error over the accounts, or "Ok".
validate_config(config) ==
    IF \E n \in DOMAIN config.accounts : n = <<>> THEN "CorruptedConfig"
    ELSE IF \E n \in DOMAIN config.accounts : config.accounts[n].email = <<>>
    THEN "CorruptedConfig"
    ELSE IF \E n \in DOMAIN config.accounts : ~validate_email(config.accounts[n].email)
    THEN "InvalidEmail"
    ELSE "Ok"

\* import_accounts with merge = false: the result, and the configuration
\* files of the home it runs in.
import_accounts(file, disk) ==
    IF ~file.exists THEN [result |-> "Other", disk |-> disk]
    ELSE IF import_parser(file) # file.syntax THEN [result |-> "Other", disk |-> disk]
    ELSE LET import_config == from_str(file)
             ld == load_config(disk)
         IN  IF validate_config(import_config) # "Ok"
             THEN [result |-> validate_config(import_config), disk |-> disk]
             ELSE IF ld.result # "Ok" THEN [result |-> ld.result, disk |-> ld.disk]
             ELSE [result |-> "Ok", disk |-> save_config(import_config, ld.disk)]

\* git-switch backup export <output> --format <format>
RunExport(output, format) ==
    /\ invocations < MaxInvocations
    /\ LET ld == load_config(Disk)
           \* export_accounts loads the configuration again
           again == load_config(ld.disk)
       IN  /\ Finished("export", output, <<>>, <<>>, ld, ld.result, again.config,
                       again.disk, ssh_config)
           /\ export_file' = IF ld.result = "Ok"
                             THEN exported(output, format, again.config)
                             ELSE export_file
    /\ fresh_home' = NoConfigFile
    /\ import_result' = "none"

\* git-switch backup import <export file>, run once in the second home
RunImportInFreshHome ==
    /\ export_file.exists
    /\ import_result = "none"
    /\ LET r == import_accounts(export_file, [NoDisk EXCEPT !.toml = fresh_home])
       IN  /\ import_result' = r.result
           /\ fresh_home' = r.disk.toml
    /\ UNCHANGED <<toml_file, json_file, json_backup, at_start, at_load, outcome,
                   invocations, export_file>>
    /\ UNCHANGED <<sshVars, detVars, extraVars>>

CliNext ==
    \/ \E output \in ExportPaths, format \in ExportFormats : RunExport(output, format)
    \/ RunImportInFreshHome
    \/ \E name \in CliNames, username \in CliUsernames, email \in CliEmails,
          key_ok \in BOOLEAN : RunAdd(name, username, email, key_ok)
    \/ \E name \in CliNames, username \in CliUsernames, email \in CliEmails :
          RunAddSshFails(name, username, email)
    \/ \E name \in CliNames, answer \in Answers : RunRemove(name, answer)
    \/ \E template \in TemplateNames, name \in CliNames, email \in TemplateEmails :
          RunTemplateUse(template, name, TemplateUsername, email)

SpecCli == CliInit /\ [][CliNext]_vars

\* ------------------------------------------------------------------------
\* Claims about the account commands (checked under SpecCli)
\* ------------------------------------------------------------------------

\* The last invocation was an add whose load_config succeeded, with a name
\* that is a key of the loaded accounts and a valid username and e-mail.
AddOfStoredName ==
    /\ outcome.cmd = "add"
    /\ outcome.result \notin {"Toml", "Json"}
    /\ outcome.name \in DOMAIN outcome.loaded.accounts
    /\ validate_username(outcome.username)
    /\ validate_email(outcome.email)

\* add_account left the record of the name and the configuration files as
\* load_config handed them over.
AddChangedNothing ==
    /\ outcome.config.accounts[outcome.name] = outcome.loaded.accounts[outcome.name]
    /\ Disk = at_load

\* C7 (as stated): add_account with a name that is already a key of
\* config.accounts, and a valid username and e-mail, fails with
\* AccountExists, and the stored record of that name and the persisted
\* configuration file are unchanged.
C7_DuplicateAddIsAccountExists ==
    AddOfStoredName => outcome.result = "AccountExists" /\ AddChangedNothing

\* C7 (amended): add_account with a name that is already a key of
\* config.accounts, and a valid username and e-mail, fails and leaves the
\* stored record of that name and the persisted configuration file
\* unchanged; the error is AccountExists when the name passes
\* validate_account_name, and the validation error (Other) when it does not.
C7_DuplicateAddFails ==
    AddOfStoredName =>
        /\ outcome.result = IF validate_account_name(outcome.name)
                            THEN "AccountExists" ELSE "Other"
        /\ AddChangedNothing

\* An add of a stored name was refused as a duplicate, and the e-mail it
\* carried differs from the stored one.
C7_Witness ==
    /\ AddOfStoredName
    /\ outcome.result = "AccountExists"
    /\ outcome.email # outcome.loaded.accounts[outcome.name].email

\* The configuration file an invocation reads.
ConfigRead(disk) == IF get_config_file_path(disk) = "toml" THEN disk.toml ELSE disk.json

\* The last invocation was a remove of a name that the configuration on disk
\* did not store when the invocation started.
RemoveOfMissingName ==
    /\ outcome.cmd = "remove"
    /\ outcome.name \notin DOMAIN ConfigRead(at_start).accounts

\* C8 (as stated): a remove of a name that is not stored fails with
\* AccountNotFound and leaves the configuration file and the SSH config
\* unmodified, whatever the configuration on disk was at the start.
C8_RemoveMissingLeavesFiles ==
    RemoveOfMissingName =>
        /\ outcome.result = "AccountNotFound"
        /\ toml_file = at_start.toml
        /\ json_file = at_start.json
        /\ ssh_config = before

\* C8 (amended): a remove of a name that is not stored fails and leaves the
\* SSH config unmodified.  When the configuration file does not parse the
\* error is the parse error and the files are untouched.  Otherwise the
\* error is AccountNotFound, and the files are untouched unless the only
\* configuration is the legacy JSON file: then the invocation has written
\* its accounts and version to the TOML file and renamed the JSON file to
\* its backup name.
C8_RemoveMissingFails ==
    RemoveOfMissingName =>
        /\ ssh_config = before
        /\ IF ConfigRead(at_start).exists /\ ~ConfigRead(at_start).parses
           THEN outcome.result \in {"Toml", "Json"} /\ Disk = at_start
           ELSE /\ outcome.result = "AccountNotFound"
                /\ IF ~at_start.toml.exists /\ at_start.json.exists
                   THEN /\ toml_file.exists /\ toml_file.parses
                        /\ toml_file.accounts = at_start.json.accounts
                        /\ toml_file.version =
                              IF at_start.json.version = None
                              THEN Some(default_config_version)
                              ELSE at_start.json.version
                        /\ ~json_file.exists
                        /\ json_backup = at_start.json
                   ELSE Disk = at_start

\* A remove of a missing name failed with AccountNotFound in an invocation
\* that found only the legacy JSON file, which still stored another account.
C8_Witness ==
    /\ RemoveOfMissingName
    /\ outcome.result = "AccountNotFound"
    /\ at_start.json.exists /\ ~at_start.toml.exists
    /\ DOMAIN at_start.json.accounts # {}

\* The accounts a listing shows: name, username, e-mail and provider.
Visible(accs) ==
    [n \in DOMAIN accs |->
        [name |-> accs[n].name, username |-> accs[n].username,
         email |-> accs[n].email, provider |-> accs[n].provider]]

\* The export of the last invocation has been imported in the second home.
ExportImported == outcome.cmd = "export" /\ import_result # "none"

\* C15: for every stored configuration the commands can reach, every export
\* format and every export path, export_accounts followed by
\* import_accounts (merge = false) into an empty config store succeeds, and
\* the accounts of that store equal the exported ones in name, username,
\* e-mail and provider.
C15_ExportImportRoundTrip ==
    ExportImported =>
        /\ import_result = "Ok"
        /\ Visible(load_config([NoDisk EXCEPT !.toml = fresh_home]).config.accounts)
              = Visible(outcome.loaded.accounts)

\* The last invocation loaded a configuration file that parses.
LoadedFromFile ==
    /\ outcome.cmd # "none"
    /\ ConfigRead(at_start).exists /\ ConfigRead(at_start).parses

\* The file read is of an older schema: the legacy JSON file, or a file
\* whose version is absent, empty or "1.0".
OlderSchema ==
    \/ get_config_file_path(at_start) = "json"
    \/ ConfigRead(at_start).version \in {None, Some(""), Some("1.0")}

\* The provider of the domain of an e-mail, for the domains the migration
\* knows.
ProviderOfDomain(email) ==
    IF Contains(email, <<"@", "github.com">>) THEN Some("github")
    ELSE IF Contains(email, <<"@", "gitlab.com">>) THEN Some("gitlab")
    ELSE None

\* C16: when load_config reads an older schema the config handed to the
\* command has version "2.0" and every account without a provider whose
\* e-mail is at a known provider domain has the provider of that domain;
\* loading a current file hands over its content as it is and changes no
\* file.
C16_LoadMigrates ==
    LoadedFromFile =>
        LET file == ConfigRead(at_start)
        IN  IF OlderSchema
            THEN /\ outcome.loaded.version = "2.0"
                 /\ \A n \in DOMAIN file.accounts :
                       (file.accounts[n].provider = None
                          /\ ProviderOfDomain(file.accounts[n].email) # None)
                       => outcome.loaded.accounts[n].provider
                             = ProviderOfDomain(file.accounts[n].email)
            ELSE /\ outcome.loaded = [accounts |-> file.accounts, version |-> file.version[1]]
                 /\ at_load = at_start


\* The last invocation was an `add` whose update_ssh_config failed.
AddWithSshFailure == outcome.cmd = "add" /\ outcome.result = "Io"

\* C22: add_account saves the new account to the config file before it
\* updates the SSH config; when the SSH config update then fails,
\* add_account returns the error and the account stays in the persisted
\* config, with the accounts that were loaded.
C22_SavedBeforeSshUpdate ==
    AddWithSshFailure =>
        /\ toml_file = to_string_pretty(outcome.config)
        /\ outcome.name \in DOMAIN toml_file.accounts
        /\ outcome.name \notin DOMAIN outcome.loaded.accounts
        /\ \A n \in DOMAIN outcome.loaded.accounts :
               toml_file.accounts[n] = outcome.loaded.accounts[n]
        /\ ssh_config = before

\* C22 witness: the add failed at the SSH config, the file on disk gained
\* the account next to one stored before, and ~/.ssh/config has no Host
\* line for it.
C22_Witness ==
    /\ AddWithSshFailure
    /\ outcome.name \in DOMAIN toml_file.accounts
    /\ ~Stores(at_load.toml, outcome.name)
    /\ DOMAIN outcome.loaded.accounts # {}
    /\ ~has_host_entry(Text(ssh_config), outcome.name)


\* The configuration file a load reads on the disk: the TOML file when it
\* exists, else the legacy JSON file.
ReadFile(disk) == IF disk.toml.exists THEN disk.toml ELSE disk.json

\* The last invocation created an account under a name that was stored.
CreationOfStoredName ==
    /\ outcome.cmd \in {"add", "template"}
    /\ ReadFile(at_start).parses
    /\ Stores(ReadFile(at_start), outcome.name)

\* C24: creating an account under a name that is already stored never
\* replaces the stored record, on every creation path (add, template use):
\* the persisted username, email, key path and provider of that account are
\* afterwards what they were.
C24_CreationKeepsStoredRecord ==
    CreationOfStoredName =>
        /\ Stores(ReadFile(Disk), outcome.name)
        /\ ReadFile(Disk).accounts[outcome.name] =
               ReadFile(at_start).accounts[outcome.name]


\* ~/.ssh/config has a Host line for the alias of the account.
HasStanza(file, name) == has_host_entry(Text(file), name)

\* C25: two distinct account names accepted by validate_account_name have
\* distinct SSH host aliases and distinct default key paths, so no two
\* stored accounts share a Host stanza or a default key file, and removing
\* one account never removes the stanza of another stored account.
C25_DistinctAliasesAndKeys ==
    /\ \A n \in CliNames, m \in CliNames :
          (n # m /\ validate_account_name(n) /\ validate_account_name(m)) =>
              /\ host_alias(n) # host_alias(m)
              /\ default_key_path(n) # default_key_path(m)
    /\ toml_file.parses =>
          \A n \in DOMAIN toml_file.accounts, m \in DOMAIN toml_file.accounts :
              n # m => /\ host_alias(n) # host_alias(m)
                       /\ default_key_path(n) # default_key_path(m)
    /\ (outcome.cmd = "remove" /\ outcome.result = "Ok" /\ toml_file.parses) =>
          \A m \in DOMAIN toml_file.accounts :
              HasStanza(before, m) => HasStanza(ssh_config, m)

\* ------------------------------------------------------------------------
\* Bulk operations on discovered repositories (repository.rs):
\* RepoManager::discover_repositories and RepoManager::bulk_apply.
\* A repository is its local git configuration and its origin URL; its
\* index in repos stands for its path.
\* ------------------------------------------------------------------------

MaxRepos == 2

MaxBulkRuns == 2

\* f32 0.5, in thousandths
ConfidenceThreshold == 500

\* The stored accounts of the RepoManager: none, or two accounts of which
\* one has a key path and a provider.
BulkAccountMaps ==
    { <<>>,
      [n \in RepoAccountNames |->
          [name         |-> n,
           username     |-> IF n = "work" THEN <<"alice">> ELSE <<"bob">>,
           email        |-> AccountEmail(n),
           provider     |-> IF n = "work" THEN Some("github") ELSE None,
           ssh_key_path |-> IF n = "work" THEN <<"~", "/", "k2">> ELSE <<>>]] }

\* Repositories as discovery can find them: with an origin at a known
\* provider, with a local e-mail and/or name that matches an account wholly
\* or in part, and with nothing set.
RepoKinds ==
    { [remote_url |-> Some(RemoteUrl("https", "github.com", "alice")),
       user_name |-> None, user_email |-> None, ssh_command |-> None],
      [remote_url |-> None,
       user_name |-> None, user_email |-> Some("work@corp"), ssh_command |-> None],
      [remote_url |-> None,
       user_name |-> Some("alice"), user_email |-> Some("work@corp"), ssh_command |-> None],
      [remote_url |-> None,
       user_name |-> Some("home"), user_email |-> Some("x@y"), ssh_command |-> None],
      [remote_url |-> None,
       user_name |-> None, user_email |-> None, ssh_command |-> None] }

RepoLists == UNION { [1..n -> RepoKinds] : n \in 0..MaxRepos }

\* Where apply_account_to_repo fails, if it does.
FailurePoints == {"never", "set_current_dir", "user.name", "user.email", "core.sshCommand"}

\* analyze_repository: the DiscoveredRepo of one repository.
analyze_repository(accs, order, repo) ==
    LET r == suggest_account(accs, order, repo.remote_url, repo.user_email, repo.user_name)
    IN  [suggested_account |-> r[1], account_confidence |-> r[2]]

\* apply_account_to_repo / apply_account_config: the local configuration the
\* repository is left with when the step fails_at fails.
apply_account_to_repo(repo, account, fails_at) ==
    IF fails_at \in {"set_current_dir", "user.name"} THEN repo
    ELSE IF fails_at = "user.email" THEN [repo EXCEPT !.user_name = Some(account.name)]
    ELSE IF account.ssh_key_path # <<>> /\ fails_at = "core.sshCommand"
    THEN [repo EXCEPT !.user_name = Some(account.name), !.user_email = Some(account.email)]
    ELSE [repo EXCEPT !.user_name = Some(account.name),
                      !.user_email = Some(account.email),
                      !.ssh_command = IF account.ssh_key_path # <<>>
                                      THEN Some(<<"ssh -i ">> \o account.ssh_key_path)
                                      ELSE @]

\* Mutation of skips_low_confidence: the threshold is tested whether or not
\* --force is given.
skips_low_confidence_forced(force, account_confidence) ==
    account_confidence < ConfidenceThreshold

\* !force && repo.account_confidence < 0.5
skips_low_confidence(force, account_confidence) ==
    ~force /\ account_confidence < ConfidenceThreshold

\* Mutation of reaches_apply: a dry run goes on to the threshold test and the
\* apply like a real run.
reaches_apply_in_dry_run(dry_run, force, discovered) ==
    /\ discovered.suggested_account # None
    /\ ~skips_low_confidence(force, discovered.account_confidence)

\* The repositories of the loop of bulk_apply on which apply_account_to_repo
\* is called.
reaches_apply(dry_run, force, discovered) ==
    /\ discovered.suggested_account # None
    /\ ~dry_run
    /\ ~skips_low_confidence(force, discovered.account_confidence)

BulkInit ==
    /\ SshIdle
    /\ CliIdle
    /\ SwitchIdle
    /\ RemoteIdle
    /\ ConIdle
    /\ MoreIdle
    /\ accounts \in BulkAccountMaps
    /\ iter_order \in IterationOrders(DOMAIN accounts)
    /\ remote_url = None
    /\ url_owner = <<>>
    /\ repo_email = None
    /\ repo_name = None
    /\ analysis = None
    /\ repos \in RepoLists
    /\ discovered_repos = <<>>
    /\ repos_before = repos
    /\ bulk = NoBulk
    /\ bulk_runs = 0
    /\ printed_repos = <<>>

\* Whether apply_account_to_repo returns Err when the step fails_at fails.
apply_fails(account, fails_at) ==
    \/ fails_at \in {"set_current_dir", "user.name", "user.email"}
    \/ fails_at = "core.sshCommand" /\ account.ssh_key_path # <<>>

\* RepoManager::discover_repositories
DiscoverRepositories ==
    /\ repos # <<>>
    /\ discovered_repos' =
          [i \in DOMAIN repos |-> analyze_repository(accounts, iter_order, repos[i])]
    /\ repos_before' = repos
    /\ bulk' = NoBulk
    /\ UNCHANGED <<repos, bulk_runs, printed_repos>>
    /\ UNCHANGED <<sshVars, detVars, cliVars, switchVars, remoteVars, conVars, moreVars>>

\* RepoManager::bulk_apply on a manager holding the list discovered: the
\* repositories afterwards and the record of the run.  An apply to
\* repository failing fails at the step fails_at, an apply to any other
\* repository succeeds.
bulk_apply(discovered, dry_run, force, failing, fails_at) ==
    IF discovered = <<>>
    THEN [repos |-> repos,
          bulk  |-> [dry_run |-> dry_run, force |-> force,
                     result |-> "NoRepositoriesDiscovered", applied |-> {},
                     failed |-> {}]]
    ELSE LET applied == { i \in DOMAIN discovered :
                             reaches_apply(dry_run, force, discovered[i]) }
             failed == { i \in applied \cap {failing} :
                            apply_fails(accounts[discovered[i].suggested_account[1]],
                                        fails_at) }
         IN  [repos |-> [i \in DOMAIN repos |->
                            IF i \in applied
                            THEN apply_account_to_repo(repos[i],
                                     accounts[discovered[i].suggested_account[1]],
                                     IF i = failing THEN fails_at ELSE "never")
                            ELSE repos[i]],
              bulk  |-> [dry_run |-> dry_run, force |-> force,
                         result |-> "Ok", applied |-> applied, failed |-> failed]]

\* RepoManager::bulk_apply on the manager that ran discover_repositories
BulkApply(dry_run, force, failing, fails_at) ==
    /\ bulk_runs < MaxBulkRuns
    /\ repos_before' = repos
    /\ bulk_runs' = bulk_runs + 1
    /\ LET run == bulk_apply(discovered_repos, dry_run, force, failing, fails_at)
       IN  repos' = run.repos /\ bulk' = run.bulk
    /\ UNCHANGED <<discovered_repos, printed_repos>>
    /\ UNCHANGED <<sshVars, detVars, cliVars, switchVars, remoteVars, conVars, moreVars>>

BulkNext ==
    \/ DiscoverRepositories
    \/ \E dry_run \in BOOLEAN, force \in BOOLEAN, failing \in 1..MaxRepos,
          fails_at \in FailurePoints : BulkApply(dry_run, force, failing, fails_at)

SpecBulk == BulkInit /\ [][BulkNext]_vars

\* ------------------------------------------------------------------------
\* Claims about bulk_apply (checked under SpecBulk)
\* ------------------------------------------------------------------------

\* The last operation on the RepoManager was a bulk_apply that went through
\* its discovered repositories.
BulkApplied == bulk.result = "Ok"

SuggestedAccount(i) == accounts[discovered_repos[i].suggested_account[1]]

\* Repository i carries the identity of the account suggested for it.
HasSuggestedIdentity(i) ==
    /\ repos[i].user_name = Some(SuggestedAccount(i).name)
    /\ repos[i].user_email = Some(SuggestedAccount(i).email)

\* C13: with dry_run = false and force = false no repository whose
\* account_confidence is below 0.5 has its git configuration changed; with
\* force = true (and dry_run = false) the account is applied to every
\* repository that has a suggested account, whatever its confidence: the
\* repository carries the account's name and e-mail unless git failed on it.
C13_ThresholdUnlessForced ==
    (BulkApplied /\ ~bulk.dry_run) =>
        /\ ~bulk.force =>
              \A i \in DOMAIN discovered_repos :
                  discovered_repos[i].account_confidence < 500 => repos[i] = repos_before[i]
        /\ bulk.force =>
              \A i \in DOMAIN discovered_repos :
                  discovered_repos[i].suggested_account # None =>
                      /\ i \in bulk.applied
                      /\ i \notin bulk.failed => HasSuggestedIdentity(i)

\* A forced run changed the configuration of a repository whose confidence
\* is below 0.5.
C13_Witness ==
    /\ BulkApplied /\ ~bulk.dry_run /\ bulk.force
    /\ \E i \in DOMAIN discovered_repos :
          /\ discovered_repos[i].suggested_account # None
          /\ discovered_repos[i].account_confidence < 500
          /\ repos[i] # repos_before[i]
          /\ HasSuggestedIdentity(i)

\* C14: bulk_apply with dry_run = true writes to no repository's git
\* configuration, whatever force is and whatever the confidences are.
C14_DryRunWritesNothing ==
    (bulk.result # "none" /\ bulk.dry_run) => repos = repos_before /\ bulk.applied = {}

\* A forced dry run went through a repository with a confident suggestion
\* that a real run would have changed.
C14_Witness ==
    /\ BulkApplied /\ bulk.dry_run /\ bulk.force
    /\ \E i \in DOMAIN discovered_repos :
          /\ discovered_repos[i].suggested_account # None
          /\ discovered_repos[i].account_confidence >= 500
          /\ ~HasSuggestedIdentity(i)

\* ------------------------------------------------------------------------
\* Switching the identity: `use <account>` (use_account_globally) and
\* `account <account>` (handle_account_subcommand), with the external
\* commands git and ssh-add (git.rs, ssh.rs, utils.rs).
\* ------------------------------------------------------------------------

MaxSwitches == 2

\* The stored accounts of the switch commands.
SwitchAccounts ==
    [n \in RepoAccountNames |->
        [name         |-> n,
         username     |-> IF n = "work" THEN "alice" ELSE "bob",
         email        |-> AccountEmail(n),
         ssh_key_path |-> IF n = "work" THEN <<"~", "/", "k2">> ELSE <<"/", "k1">>]]

\* The <account> argument: a name, a username, an e-mail, and a stranger.
SwitchArguments == {"work", "bob", "me@home", "nobody"}

\* What a `git config` child process can do: exit with status 0 having
\* written the value, exit with a nonzero status having written nothing, or
\* fail to start.
GitOutcomes == {"exit 0", "exit 1", "not spawned"}

AgentUnreachable == <<"Could not open a connection to your authentication agent", ".">>

\* What an ssh-add child process can do: its exit status and what it wrote
\* to its standard error.
SshAddOutcomes ==
    { [spawned |-> TRUE,  status |-> "0", stderr |-> <<"Identity added">>],
      [spawned |-> TRUE,  status |-> "2", stderr |-> AgentUnreachable],
      [spawned |-> TRUE,  status |-> "1",
       stderr |-> <<"Error loading key: ", "invalid format">>],
      [spawned |-> TRUE,  status |-> "1", stderr |-> <<"Permission denied">>],
      [spawned |-> FALSE, status |-> "none", stderr |-> <<>>] }

\* find_account: by key, else the first account in iteration order whose
\* username or e-mail is the argument.
RECURSIVE find_by_username_or_email(_, _, _)
find_by_username_or_email(order, accs, name_or_username) ==
    IF order = <<>> THEN None
    ELSE IF \/ accs[Head(order)].username = name_or_username
            \/ accs[Head(order)].email = name_or_username
    THEN Some(accs[Head(order)])
    ELSE find_by_username_or_email(Tail(order), accs, name_or_username)

find_account(accs, order, name_or_username) ==
    IF name_or_username \in DOMAIN accs THEN Some(accs[name_or_username])
    ELSE find_by_username_or_email(order, accs, name_or_username)

\* run_command: the text of the error it returns for a child that did not
\* succeed, or None.  The child's standard error is not captured.
run_command_error(command_str, args, child) ==
    IF ~child.spawned
    THEN Some(<<"Command execution failed: ", command_str, " - ",
                "Failed to spawn command: ", "os error">>)
    ELSE IF child.status # "0"
    THEN Some(<<"Command execution failed: ", command_str, " - ",
                "Command with args '">> \o args
              \o <<"' failed with status: ", "exit status: ", child.status>>)
    ELSE None

\* add_ssh_key for a key file that exists: "Ok(true)", "Ok(false)" or "Err".
add_ssh_key(key_path_str, child) ==
    LET e == run_command_error("ssh-add", expand_path(key_path_str), child)
    IN  IF e = None THEN "Ok(true)"
        ELSE LET error_msg == e[1]
             IN  IF Contains(error_msg,
                        <<"Could not open a connection to your authentication agent">>)
                 THEN "Ok(false)"
                 ELSE IF \/ Contains(error_msg, <<"error in libcrypto">>)
                         \/ Contains(error_msg, <<"invalid format">>)
                 THEN "Ok(false)"
                 ELSE "Err"

\* set_global_config / set_local_config: run_command_with_full_output fails
\* only for a child that did not start; the exit status is not looked at.
\* The result, and the name and e-mail left in the configuration.
set_config(identity, username, email, git_name, git_email) ==
    LET named == IF git_name = "exit 0" THEN [identity EXCEPT !.user_name = Some(username)]
                 ELSE identity
    IN  IF git_name = "not spawned" THEN [result |-> "CommandExecution", identity |-> identity]
        ELSE IF git_email = "not spawned" THEN [result |-> "CommandExecution", identity |-> named]
        ELSE [result |-> "Ok",
              identity |-> IF git_email = "exit 0" THEN [named EXCEPT !.user_email = Some(email)]
                           ELSE named]

SwitchInit ==
    /\ SshIdle
    /\ CliIdle
    /\ BulkIdle
    /\ RemoteIdle
    /\ ConIdle
    /\ MoreIdle
    /\ accounts = SwitchAccounts
    /\ iter_order \in IterationOrders(DOMAIN accounts)
    /\ remote_url = None
    /\ url_owner = <<>>
    /\ repo_email = None
    /\ repo_name = None
    /\ analysis = None
    /\ git_global \in { NoIdentity,
                        [NoIdentity EXCEPT !.user_name = Some("bob"),
                                           !.user_email = Some("me@home")] }
    /\ git_local = NoIdentity
    /\ switch = NoSwitch
    /\ switches = 0

\* The record of a switch that ended before any external command.
EndedEarly(cmd, result) == [NoSwitch EXCEPT !.cmd = cmd, !.result = result]

\* git-switch use <name>: use_account_globally.  git_name and git_email are
\* what the two `git config --global` children do, key_exists whether the
\* account's key file is there, child what ssh-add does.
UseAccountGlobally(name, git_name, git_email, key_exists, child) ==
    /\ switches < MaxSwitches
    /\ switches' = switches + 1
    /\ LET account == find_account(accounts, iter_order, name)
       IN  IF account = None
           THEN /\ switch' = EndedEarly("use", "AccountNotFound")
                /\ UNCHANGED git_global
           ELSE LET r == set_config(git_global, account[1].username, account[1].email,
                                    git_name, git_email)
                    added == IF r.result = "Ok" /\ key_exists
                             THEN add_ssh_key(account[1].ssh_key_path, child)
                             ELSE "not called"
                IN  /\ git_global' = r.identity
                    /\ switch' =
                          [cmd |-> "use",
                           git_name |-> git_name,
                           git_email |-> IF git_name = "not spawned" THEN "not run"
                                         ELSE git_email,
                           ssh_add |-> IF added = "not called" THEN NotRun ELSE child,
                           add_ssh_key |-> added,
                           result |-> IF r.result # "Ok" THEN r.result
                                      ELSE IF added = "Err" THEN "SshCommand"
                                      ELSE "Ok"]
    /\ UNCHANGED git_local
    /\ UNCHANGED <<sshVars, detVars, cliVars, bulkVars, remoteVars, conVars, moreVars>>

\* git-switch account <name>: handle_account_subcommand.  in_repo is the
\* answer of is_in_git_repository, git_ssh what the `git config
\* core.sshCommand` child does.
HandleAccountSubcommand(name, in_repo, git_name, git_email, key_exists, git_ssh) ==
    /\ switches < MaxSwitches
    /\ switches' = switches + 1
    /\ LET account == find_account(accounts, iter_order, name)
       IN  IF account = None
           THEN /\ switch' = EndedEarly("account", "AccountNotFound")
                /\ UNCHANGED git_local
           ELSE IF ~in_repo
           THEN /\ switch' = EndedEarly("account", "NotInGitRepository")
                /\ UNCHANGED git_local
           ELSE LET r == set_config(git_local, account[1].username, account[1].email,
                                    git_name, git_email)
                    sets_ssh == r.result = "Ok" /\ key_exists
                IN  /\ git_local' =
                          IF sets_ssh /\ git_ssh = "exit 0"
                          THEN [r.identity EXCEPT !.ssh_command =
                                   Some(<<"ssh -i ">> \o account[1].ssh_key_path)]
                          ELSE r.identity
                    /\ switch' =
                          [cmd |-> "account",
                           git_name |-> git_name,
                           git_email |-> IF git_name = "not spawned" THEN "not run"
                                         ELSE git_email,
                           ssh_add |-> NotRun,
                           add_ssh_key |-> "not called",
                           result |-> IF r.result # "Ok" THEN r.result
                                      ELSE IF sets_ssh /\ git_ssh = "not spawned"
                                      THEN "CommandExecution"
                                      ELSE "Ok"]
    /\ UNCHANGED git_global
    /\ UNCHANGED <<sshVars, detVars, cliVars, bulkVars, remoteVars, conVars, moreVars>>

SwitchNext ==
    \/ \E name \in SwitchArguments, git_name \in GitOutcomes, git_email \in GitOutcomes,
          key_exists \in BOOLEAN, child \in SshAddOutcomes :
          UseAccountGlobally(name, git_name, git_email, key_exists, child)
    \/ \E name \in SwitchArguments, in_repo \in BOOLEAN, git_name \in GitOutcomes,
          git_email \in GitOutcomes, key_exists \in BOOLEAN, git_ssh \in GitOutcomes :
          HandleAccountSubcommand(name, in_repo, git_name, git_email, key_exists, git_ssh)

SpecSwitch == SwitchInit /\ [][SwitchNext]_vars

\* ------------------------------------------------------------------------
\* Claims about switching the identity (checked under SpecSwitch)
\* ------------------------------------------------------------------------

\* C17: when ssh-add fails because the agent is unreachable (its standard
\* error contains "Could not open a connection to your authentication
\* agent"), add_ssh_key returns Ok(false) and `use <account>` completes
\* successfully after setting the global identity.
C17_AgentFailureIsSoft ==
    (switch.cmd = "use" /\ switch.ssh_add.spawned /\ switch.ssh_add.status # "0"
       /\ Contains(switch.ssh_add.stderr,
              <<"Could not open a connection to your authentication agent">>)) =>
        /\ switch.add_ssh_key = "Ok(false)"
        /\ switch.result = "Ok"

\* C18: if a `git config` child that sets user.name or user.email exits with
\* a nonzero status during `use <account>` or `account <account>`, the
\* command returns an error and does not report success.
C18_GitConfigFailureIsError ==
    (switch.cmd \in {"use", "account"}
       /\ (switch.git_name = "exit 1" \/ switch.git_email = "exit 1")) =>
        switch.result # "Ok"


\* The last command was `account <name>` and its `git config --local`
\* children wrote the name and the e-mail.
AccountCommandApplied ==
    /\ switch.cmd = "account"
    /\ switch.result = "Ok"
    /\ switch.git_name = "exit 0"
    /\ switch.git_email = "exit 0"

\* The stored accounts whose identity the `account` command wrote.
AppliedAccounts ==
    { n \in DOMAIN accounts :
        /\ git_local.user_name = Some(accounts[n].username)
        /\ git_local.user_email = Some(accounts[n].email) }

\* C26: for the same account, the bulk-apply path (apply_account_config)
\* writes the same local user.name and user.email into a repository as the
\* `account <name>` command does.
C26_BulkApplyWritesSameIdentity ==
    AccountCommandApplied =>
        \A n \in AppliedAccounts :
            LET repo == apply_account_to_repo(NoIdentity, accounts[n], "never")
            IN  /\ repo.user_name = git_local.user_name
                /\ repo.user_email = git_local.user_email


\* C27: for a repository whose local identity was written by `account X`
\* and whose remote matches no account, repository analysis suggests X with
\* confidence at least 0.5, for every stored account X.
C27_AnalysisSuggestsAppliedAccount ==
    AccountCommandApplied =>
        \A n \in AppliedAccounts :
            LET r == suggest_account(accounts, iter_order, remote_url,
                                     git_local.user_email, git_local.user_name)
            IN  /\ r[1] = Some(n)
                /\ r[2] >= ConfidenceThreshold

\* ------------------------------------------------------------------------
\* `remote --https` / `remote --ssh`: handle_remote_subcommand,
\* convert_to_https and convert_to_ssh (commands.rs).  A URL is a sequence
\* of tokens: the scheme "https://", the user part "git@", the separators
\* ":" and "/", the suffix ".git", and host and path labels.
\* ------------------------------------------------------------------------

MaxConversions == 3

\* Hosts: a name, and a name with a port.
UrlAuthorities == { <<"h">>, <<"h", ":", "8443">> }

\* Paths without the final .git: one segment, two segments, and a
\* repository whose own name ends in .git.
UrlPaths == { <<"a">>, <<"a", "/", "b">>, <<"a", ".git">> }

HttpsUrl(host, path) == <<"https://">> \o host \o <<"/">> \o path \o <<".git">>

SshUrl(host, path) == <<"git@">> \o host \o <<":">> \o path \o <<".git">>

\* The origin URLs a repository may have: both forms over the hosts and
\* paths, and one URL of neither form.
OriginUrls ==
    { HttpsUrl(host, path) : host \in UrlAuthorities, path \in UrlPaths }
        \cup { SshUrl(host, path) : host \in UrlAuthorities, path \in UrlPaths }
        \cup { <<"http://", "h", "/", "a", ".git">> }

\* str::trim_start_matches / str::trim_end_matches: the pattern is removed
\* as often as it occurs at that end.
RECURSIVE trim_start_matches(_, _)
trim_start_matches(str, pat) ==
    IF str # <<>> /\ Head(str) = pat THEN trim_start_matches(Tail(str), pat) ELSE str

RECURSIVE trim_end_matches(_, _)
trim_end_matches(str, pat) ==
    IF str # <<>> /\ str[Len(str)] = pat
    THEN trim_end_matches(SubSeq(str, 1, Len(str) - 1), pat)
    ELSE str

\* str::splitn(2, c): the text before the first c and the text after it, or
\* the whole text when there is no c.
splitn2(str, c) ==
    IF \E i \in 1..Len(str) : str[i] = c
    THEN LET i == CHOOSE k \in 1..Len(str) :
                     str[k] = c /\ \A j \in 1..(k - 1) : str[j] # c
         IN  <<SubSeq(str, 1, i - 1), SubSeq(str, i + 1, Len(str))>>
    ELSE <<str>>

\* convert_to_https: Some(url) for Ok(url), None for the error.
convert_to_https(url) ==
    IF url # <<>> /\ Head(url) = "https://" THEN Some(url)
    ELSE IF url # <<>> /\ Head(url) = "git@" /\ Len(splitn2(url, ":")) = 2
    THEN LET parts == splitn2(url, ":")
             host == trim_start_matches(parts[1], "git@")
             path == trim_end_matches(parts[2], ".git")
         IN  Some(<<"https://">> \o host \o <<"/">> \o path \o <<".git">>)
    ELSE None

\* convert_to_ssh: Some(url) for Ok(url), None for the error.
convert_to_ssh(url) ==
    IF url # <<>> /\ Head(url) = "git@" THEN Some(url)
    ELSE IF url # <<>> /\ Head(url) = "https://"
            /\ Len(splitn2(trim_start_matches(url, "https://"), "/")) = 2
    THEN LET parts == splitn2(trim_start_matches(url, "https://"), "/")
             host == parts[1]
             path == trim_end_matches(parts[2], ".git")
         IN  Some(<<"git@">> \o host \o <<":">> \o path \o <<".git">>)
    ELSE None

RemoteInit ==
    /\ SshIdle
    /\ DetIdle
    /\ CliIdle
    /\ BulkIdle
    /\ SwitchIdle
    /\ ConIdle
    /\ MoreIdle
    /\ origin_url \in OriginUrls
    /\ conversion = NoConversion
    /\ conversions = 0

\* git-switch remote [--https] [--ssh], run inside the repository
HandleRemoteSubcommand(https, ssh) ==
    /\ conversions < MaxConversions
    /\ conversions' = conversions + 1
    /\ LET current_url == origin_url
           new_url == IF https THEN convert_to_https(current_url)
                      ELSE IF ssh THEN convert_to_ssh(current_url)
                      ELSE None
           flag == IF https THEN "https" ELSE IF ssh THEN "ssh" ELSE "neither"
       IN  /\ origin_url' = IF new_url = None THEN origin_url ELSE new_url[1]
           /\ conversion' = [flag |-> flag, url |-> current_url,
                             result |-> IF new_url = None THEN "Other" ELSE "Ok"]
    /\ UNCHANGED <<sshVars, detVars, cliVars, bulkVars, switchVars, conVars, moreVars>>

RemoteNext == \E https \in BOOLEAN, ssh \in BOOLEAN : HandleRemoteSubcommand(https, ssh)

SpecRemote == RemoteInit /\ [][RemoteNext]_vars

\* ------------------------------------------------------------------------
\* Claims about the remote command (checked under SpecRemote)
\* ------------------------------------------------------------------------

\* C19: `remote --ssh` rewrites https://H/P.git to git@H:P.git, `remote
\* --https` rewrites git@H:P.git to https://H/P.git (so each undoes the
\* other on such URLs), and a URL already in the requested form is left
\* unchanged.
C19_ConversionsAreInverse ==
    /\ \A host \in UrlAuthorities, path \in UrlPaths :
          /\ (conversion.flag = "ssh" /\ conversion.url = HttpsUrl(host, path))
                => conversion.result = "Ok" /\ origin_url = SshUrl(host, path)
          /\ (conversion.flag = "https" /\ conversion.url = SshUrl(host, path))
                => conversion.result = "Ok" /\ origin_url = HttpsUrl(host, path)
    /\ (conversion.flag = "ssh" /\ conversion.url # <<>> /\ Head(conversion.url) = "git@")
          => conversion.result = "Ok" /\ origin_url = conversion.url
    /\ (conversion.flag = "https" /\ conversion.url # <<>>
          /\ Head(conversion.url) = "https://")
          => conversion.result = "Ok" /\ origin_url = conversion.url

\* ------------------------------------------------------------------------
\* Two `add` invocations running at the same time (main.rs, config.rs,
\* commands.rs, ssh.rs, utils.rs).  Each process is a sequence of file
\* system calls; the calls of the two processes interleave freely.
\* ------------------------------------------------------------------------

Procs == {1, 2}

Other(p) == 3 - p

\* The names the two invocations add; both pass validate_account_name.
ConNames == { <<"x">>, <<"W">>, <<"w", "2">> }

ConUsername == <<"alice">>

ConEmail == <<"a", "@", "corp.com">>

\* What is on disk when the two invocations start: nothing, a TOML file, a
\* legacy JSON file.
ConDisks ==
    { NoDisk,
      [NoDisk EXCEPT !.toml = Document(LegacyAccounts, Some("2.0"))],
      [NoDisk EXCEPT !.json = Document(LegacyAccounts, Some("1.0"))] }

\* File::create inside fs::write: the file exists and is empty.  The empty
\* text is not a Config (the accounts table is required), so it does not
\* parse.
Truncated == Corrupt

\* The characters of the keys and punctuation of one account table in the
\* pretty TOML text: the table header, name, username, email, ssh_key_path,
\* additional_ssh_keys, groups and the blank line.
AccountTextLen == 103

\* The characters of the provider line without the value.
ProviderTextLen == 14

RECURSIVE accounts_len(_, _)
accounts_len(accs, names) ==
    IF names = {} THEN 0
    ELSE LET n == CHOOSE k \in names : TRUE
             account == accs[n]
         IN  AccountTextLen + StrLen(n) + StrLen(account.name)
                 + StrLen(account.username) + StrLen(account.email)
                 + StrLen(account.ssh_key_path)
                 + (IF account.provider = None THEN 0
                    ELSE ProviderTextLen + TokenLen(account.provider[1]))
                 + accounts_len(accs, names \ {n})

\* The length of the text of a configuration file, leaving out the lines
\* every configuration shares (version, settings).
file_len(file) ==
    IF "len" \in DOMAIN file THEN file.len
    ELSE accounts_len(file.accounts, DOMAIN file.accounts)

\* A file that starts with a whole document and goes on with what an older,
\* longer text left behind it.
Leftover(content, len) ==
    [exists |-> TRUE, parses |-> FALSE, accounts |-> content.accounts,
     version |-> content.version, len |-> len]

\* write_all on a handle opened by File::create, at its offset 0: the bytes
\* of the file beyond the written text stay.
write_all(content, file) ==
    IF file_len(file) <= file_len(content) THEN content
    ELSE Leftover(content, file_len(file))

\* The same on the text of ~/.ssh/config.
write_all_text(content, file) ==
    IF Len(file) <= Len(content) THEN content
    ELSE content \o SubSeq(file, Len(content) + 1, Len(file))

ConInit ==
    /\ DetIdle
    /\ BulkIdle
    /\ SwitchIdle
    /\ RemoteIdle
    /\ MoreIdle
    /\ \E disk \in ConDisks :
          /\ toml_file = disk.toml
          /\ json_file = disk.json
          /\ json_backup = disk.backup
          /\ ssh_config = IF Stores(disk.toml, <<"w">>) \/ Stores(disk.json, <<"w">>)
                          THEN updated_config(NoFile, <<"w">>, default_key_path(<<"w">>))
                          ELSE NoFile
    /\ before = ssh_config
    /\ last = NoCall
    /\ calls = 0
    /\ at_start = Disk
    /\ at_load = Disk
    /\ outcome = NoInvocation
    /\ invocations = 0
    /\ BackupIdle
    /\ con_pc = <<"start", "start">>
    /\ \E first \in ConNames :
          \E second \in ConNames \ {first} : con_name = <<first, second>>
    /\ con_path = <<"none", "none">>
    /\ con_mem = <<DefaultConfig, DefaultConfig>>
    /\ con_ssh = << <<>>, <<>> >>
    /\ con_result = <<"running", "running">>
    /\ last_saver = 0
    /\ last_writer = 0
    /\ overlapped = FALSE

\* The variables no step of the two invocations touches.
conFrame == <<detVars, bulkVars, switchVars, remoteVars, moreVars, before, last, calls, at_start,
              at_load, outcome, invocations, backupVars, con_name>>

\* The process goes on to its next call.
Goto(p, pc) == con_pc' = [con_pc EXCEPT ![p] = pc]

\* The process ends with Ok or with the error it reports.
Exit(p, result) ==
    /\ con_pc' = [con_pc EXCEPT ![p] = "done"]
    /\ con_result' = [con_result EXCEPT ![p] = result]

\* load_config: get_config_file_path
ConGetPath(p) ==
    /\ con_pc[p] = "start"
    /\ con_path' = [con_path EXCEPT ![p] = get_config_file_path(Disk)]
    /\ Goto(p, "exists")
    /\ UNCHANGED <<conFrame, toml_file, json_file, json_backup, ssh_config, con_mem,
                   con_ssh, con_result, last_saver, last_writer, overlapped>>

PathFile(p) == IF con_path[p] = "toml" THEN toml_file ELSE json_file

\* load_config: if !config_path.exists() { return Ok(Config::default()) }
ConExists(p) ==
    /\ con_pc[p] = "exists"
    /\ IF PathFile(p).exists THEN Goto(p, "read") ELSE Goto(p, "loaded")
    /\ UNCHANGED <<conFrame, toml_file, json_file, json_backup, ssh_config, con_path,
                   con_mem, con_ssh, con_result, last_saver, last_writer, overlapped>>

\* load_config: read_file_content and the parser; for the TOML file also
\* migrate_config, which touches no file.
ConRead(p) ==
    /\ con_pc[p] = "read"
    /\ LET content == PathFile(p)
       IN  IF ~content.exists
           THEN Exit(p, "Io") /\ UNCHANGED con_mem
           ELSE IF ~content.parses
           THEN Exit(p, IF con_path[p] = "toml" THEN "Toml" ELSE "Json")
                /\ UNCHANGED con_mem
           ELSE IF con_path[p] = "toml"
           THEN /\ con_mem' = [con_mem EXCEPT ![p] = migrate_config(from_str(content))]
                /\ Goto(p, "loaded")
                /\ UNCHANGED con_result
           ELSE /\ con_mem' = [con_mem EXCEPT ![p] = from_str(content)]
                /\ Goto(p, "migrate_create")
                /\ UNCHANGED con_result
    /\ UNCHANGED <<conFrame, toml_file, json_file, json_backup, ssh_config, con_path,
                   con_ssh, last_saver, last_writer, overlapped>>

\* The other process holds a handle on the TOML file it has not written yet.
OtherHasOpened(p) == con_pc[Other(p)] \in {"migrate_write", "save_write"}

\* fs::write, first half: File::create truncates the TOML file.
create_toml(p, pc) ==
    /\ toml_file' = Truncated
    /\ overlapped' = (overlapped \/ OtherHasOpened(p))
    /\ Goto(p, pc)
    /\ UNCHANGED <<conFrame, json_file, json_backup, ssh_config, con_path, con_mem,
                   con_ssh, con_result, last_saver, last_writer>>

\* migrate_to_toml: write_file_content(&toml_path, &content), the create
ConMigrateCreate(p) ==
    /\ con_pc[p] = "migrate_create"
    /\ create_toml(p, "migrate_write")

\* migrate_to_toml: write_file_content(&toml_path, &content), the write
ConMigrateWrite(p) ==
    /\ con_pc[p] = "migrate_write"
    /\ toml_file' = write_all(to_string_pretty(con_mem[p]), toml_file)
    /\ last_writer' = p
    /\ Goto(p, "migrate_exists")
    /\ UNCHANGED <<conFrame, json_file, json_backup, ssh_config, con_path, con_mem,
                   con_ssh, con_result, last_saver, overlapped>>

\* migrate_to_toml: if json_path.exists(); without the JSON file load_config
\* goes on to migrate_config.
ConMigrateExists(p) ==
    /\ con_pc[p] = "migrate_exists"
    /\ IF json_file.exists
       THEN Goto(p, "migrate_rename") /\ UNCHANGED con_mem
       ELSE /\ con_mem' = [con_mem EXCEPT ![p] = migrate_config(@)]
            /\ Goto(p, "loaded")
    /\ UNCHANGED <<conFrame, toml_file, json_file, json_backup, ssh_config, con_path,
                   con_ssh, con_result, last_saver, last_writer, overlapped>>

\* migrate_to_toml: std::fs::rename(&json_path, &backup_path)?, then
\* migrate_config.
ConMigrateRename(p) ==
    /\ con_pc[p] = "migrate_rename"
    /\ IF ~json_file.exists
       THEN Exit(p, "Io") /\ UNCHANGED <<json_file, json_backup, con_mem>>
       ELSE /\ json_backup' = json_file
            /\ json_file' = NoConfigFile
            /\ con_mem' = [con_mem EXCEPT ![p] = migrate_config(@)]
            /\ Goto(p, "loaded")
            /\ UNCHANGED con_result
    /\ UNCHANGED <<conFrame, toml_file, ssh_config, con_path, con_ssh, last_saver,
                   last_writer, overlapped>>

\* add_account up to config.accounts.insert
ConAddAccount(p, key_ok) ==
    /\ con_pc[p] = "loaded"
    /\ LET r == add_account(con_mem[p], con_name[p], ConUsername, ConEmail, key_ok)
       IN  IF r.saved
           THEN /\ con_mem' = [con_mem EXCEPT ![p] = r.config]
                /\ Goto(p, "save_create")
                /\ UNCHANGED con_result
           ELSE Exit(p, r.result) /\ UNCHANGED con_mem
    /\ UNCHANGED <<conFrame, toml_file, json_file, json_backup, ssh_config, con_path,
                   con_ssh, last_saver, last_writer, overlapped>>

\* save_config: write_file_content(&toml_path, &content), the create
ConSaveCreate(p) ==
    /\ con_pc[p] = "save_create"
    /\ create_toml(p, "save_write")

\* save_config: write_file_content(&toml_path, &content), the write
ConSaveWrite(p) ==
    /\ con_pc[p] = "save_write"
    /\ toml_file' = write_all(to_string_pretty(con_mem[p]), toml_file)
    /\ last_saver' = p
    /\ last_writer' = p
    /\ Goto(p, "ssh_read")
    /\ UNCHANGED <<conFrame, json_file, json_backup, ssh_config, con_path, con_mem,
                   con_ssh, con_result, overlapped>>

\* update_ssh_config: the read and the duplicate check
ConSshRead(p) ==
    /\ con_pc[p] = "ssh_read"
    /\ LET current_config == Text(ssh_config)
       IN  /\ con_ssh' = [con_ssh EXCEPT ![p] = current_config]
           /\ IF has_host_entry(current_config, con_name[p])
              THEN Exit(p, "Ok")
              ELSE Goto(p, "ssh_create") /\ UNCHANGED con_result
    /\ UNCHANGED <<conFrame, toml_file, json_file, json_backup, ssh_config, con_path,
                   con_mem, last_saver, last_writer, overlapped>>

\* update_ssh_config: write_file_content(&config_path, &current_config), the
\* create
ConSshCreate(p) ==
    /\ con_pc[p] = "ssh_create"
    /\ ssh_config' = <<>>
    /\ Goto(p, "ssh_write")
    /\ UNCHANGED <<conFrame, toml_file, json_file, json_backup, con_path, con_mem,
                   con_ssh, con_result, last_saver, last_writer, overlapped>>

\* update_ssh_config: write_file_content(&config_path, &current_config), the
\* write
ConSshWrite(p) ==
    /\ con_pc[p] = "ssh_write"
    /\ LET entry == config_entry(con_name[p], expand_path(default_key_path(con_name[p])))
       IN  ssh_config' = write_all_text(push_entry(con_ssh[p], entry), Text(ssh_config))
    /\ Exit(p, "Ok")
    /\ UNCHANGED <<conFrame, toml_file, json_file, json_backup, con_path, con_mem,
                   con_ssh, last_saver, last_writer, overlapped>>

ConNext ==
    \E p \in Procs :
        \/ ConGetPath(p)
        \/ ConExists(p)
        \/ ConRead(p)
        \/ ConMigrateCreate(p)
        \/ ConMigrateWrite(p)
        \/ ConMigrateExists(p)
        \/ ConMigrateRename(p)
        \/ \E key_ok \in BOOLEAN : ConAddAccount(p, key_ok)
        \/ ConSaveCreate(p)
        \/ ConSaveWrite(p)
        \/ ConSshRead(p)
        \/ ConSshCreate(p)
        \/ ConSshWrite(p)

SpecCon == ConInit /\ [][ConNext]_vars

\* ------------------------------------------------------------------------
\* Claims about concurrent invocations (checked under SpecCon)
\* ------------------------------------------------------------------------

AllDone == con_pc = <<"done", "done">>

BothOk == con_result = <<"Ok", "Ok">>

\* The file is the text of the Config the last saver held: what it loaded
\* and the account it added.
FileIsLastSaversMap ==
    /\ toml_file = to_string_pretty(con_mem[last_saver])
    /\ con_name[last_saver] \in DOMAIN toml_file.accounts

\* C20 as stated: whenever both invocations have ended and one of them
\* saved, the config file equals the full map written by the last saver.
C20_FinalFileIsLastSaversMap ==
    (AllDone /\ last_saver # 0) => FileIsLastSaversMap

\* C20: there is no locking, so of two concurrent `add` invocations for
\* distinct names both can report success while the file keeps one of the
\* two accounts; when no write to the file began while another write was
\* open and the last write was a save, the final file equals the full map
\* written by the last saver.
C20_LastSaverWins ==
    (AllDone /\ last_saver # 0 /\ last_writer = last_saver /\ ~overlapped)
        => FileIsLastSaversMap

\* Both invocations report success, their writes did not overlap, and the
\* file holds the account of the last saver without the account of the
\* other: a lost update.
C20_Witness ==
    /\ AllDone
    /\ BothOk
    /\ ~overlapped
    /\ last_writer = last_saver
    /\ toml_file.parses
    /\ con_name[last_saver] \in DOMAIN toml_file.accounts
    /\ con_name[Other(last_saver)] \notin DOMAIN toml_file.accounts

\* ------------------------------------------------------------------------
\* One SSH config call, file system call by file system call (ssh.rs
\* 114-146, 200-254; utils.rs 35-72)
\* ------------------------------------------------------------------------

StepNames == { <<"w">>, <<"x">> }

StepKeyPath == <<"/", "k1">>

\* What a failing write_file_content can leave: nothing was opened, or the
\* file was truncated and any part of the text got written.
Prefixes(content) == { SubSeq(content, 1, k) : k \in 0..(Len(content) - 1) }

\* Mutation of read_file_content: a failing read gives the empty text.
read_file_content_or_empty(file, readable) ==
    IF readable THEN Some(Text(file)) ELSE Some(<<>>)

\* read_file_content: Some(text) for Ok(text), None for the error.
read_file_content(file, readable) ==
    IF readable THEN Some(Text(file)) ELSE None

StepInit ==
    /\ DetIdle
    /\ CliIdle
    /\ BulkIdle
    /\ SwitchIdle
    /\ RemoteIdle
    /\ ConIdle
    /\ ProfileIdle
    /\ ScanIdle
    /\ StepIdle
    /\ ssh_config \in UserConfigs
    /\ before = ssh_config
    /\ last = NoCall
    /\ calls = 0

stepFrame == <<detVars, cliVars, bulkVars, switchVars, remoteVars, conVars, profileVars,
               scanVars, last>>

\* The call returns.
Returns(res, failed) ==
    /\ st_pc' = "idle"
    /\ st_result' = [res |-> res, failed |-> failed]

\* A caller enters update_ssh_config or remove_ssh_config_entry.
StepBegin(op, account_name) ==
    /\ st_pc = "idle"
    /\ calls < MaxStepCalls
    /\ calls' = calls + 1
    /\ st_pc' = "path"
    /\ st_call' = [op |-> op, name |-> account_name,
                   path |-> IF op = "update" THEN StepKeyPath ELSE <<>>]
    /\ st_content' = <<>>
    /\ st_writes' = 0
    /\ st_result' = NoStepResult
    /\ before' = ssh_config
    /\ UNCHANGED <<stepFrame, ssh_config>>

\* expand_path(..)? and get_ssh_config_file_path()?
StepPath(home_found) ==
    /\ st_pc = "path"
    /\ IF home_found
       THEN /\ st_pc' = IF st_call.op = "update" THEN "dir" ELSE "read"
            /\ UNCHANGED st_result
       ELSE Returns("Err", "path")
    /\ UNCHANGED <<stepFrame, ssh_config, before, calls, st_call, st_content, st_writes>>

\* update_ssh_config: ensure_parent_dir_exists(&config_path)?
StepDir(created) ==
    /\ st_pc = "dir"
    /\ IF created
       THEN st_pc' = "read" /\ UNCHANGED st_result
       ELSE Returns("Err", "dir")
    /\ UNCHANGED <<stepFrame, ssh_config, before, calls, st_call, st_content, st_writes>>

\* config_path.exists() and read_file_content(&config_path)?
StepRead(readable) ==
    /\ st_pc = "read"
    /\ IF ssh_config = NoFile
       THEN IF st_call.op = "update"
            THEN st_content' = <<>> /\ st_pc' = "compute" /\ UNCHANGED st_result
            ELSE Returns("Ok", "none") /\ UNCHANGED st_content
       ELSE LET text == read_file_content(ssh_config, readable)
            IN  IF text = None
                THEN Returns("Err", "read") /\ UNCHANGED st_content
                ELSE st_content' = text[1] /\ st_pc' = "compute" /\ UNCHANGED st_result
    /\ UNCHANGED <<stepFrame, ssh_config, before, calls, st_call, st_writes>>

\* The new content, computed in memory: the duplicate check and push_str of
\* update_ssh_config, the for loop, join and comparison of
\* remove_ssh_config_entry.
StepCompute ==
    /\ st_pc = "compute"
    /\ IF st_call.op = "update"
       THEN IF has_host_entry(st_content, st_call.name)
            THEN Returns("Ok", "none") /\ UNCHANGED st_content
            ELSE /\ st_content' = push_entry(st_content,
                                     config_entry(st_call.name, expand_path(st_call.path)))
                 /\ st_pc' = "write"
                 /\ UNCHANGED st_result
       ELSE LET new == new_content(st_content, st_call.name)
            IN  IF Trim(new) = Trim(st_content)
                THEN Returns("Ok", "none") /\ UNCHANGED st_content
                ELSE st_content' = new /\ st_pc' = "write" /\ UNCHANGED st_result
    /\ UNCHANGED <<stepFrame, ssh_config, before, calls, st_call, st_writes>>

\* write_file_content(&config_path, ..)? returning Ok
StepWrite ==
    /\ st_pc = "write"
    /\ st_writes' = st_writes + 1
    /\ ssh_config' = st_content
    /\ Returns("Ok", "none")
    /\ UNCHANGED <<stepFrame, before, calls, st_call, st_content>>

\* write_file_content failing: in ensure_parent_dir_exists or File::create
\* (the file is as it was), or in write_all after the truncation.
StepWriteFails(opened) ==
    /\ st_pc = "write"
    /\ st_writes' = st_writes + 1
    /\ IF opened
       THEN ssh_config' \in Prefixes(st_content)
       ELSE UNCHANGED ssh_config
    /\ Returns("Err", "write")
    /\ UNCHANGED <<stepFrame, before, calls, st_call, st_content>>

StepNext ==
    \/ \E op \in {"update", "remove"}, a \in StepNames : StepBegin(op, a)
    \/ \E home_found \in BOOLEAN : StepPath(home_found)
    \/ \E created \in BOOLEAN : StepDir(created)
    \/ \E readable \in BOOLEAN : StepRead(readable)
    \/ StepCompute
    \/ StepWrite
    \/ \E opened \in BOOLEAN : StepWriteFails(opened)

SpecSteps == StepInit /\ [][StepNext]_vars

\* ------------------------------------------------------------------------
\* Claims about the steps of an SSH config call (checked under SpecSteps)
\* ------------------------------------------------------------------------

\* The complete new content of the call, computed from the whole file as it
\* was when the call began.
WholeNewContent ==
    IF st_call.op = "update"
    THEN updated_config_unchecked(before, st_call.name, st_call.path)
    ELSE new_content(Text(before), st_call.name)

\* C21: each update_ssh_config or remove_ssh_config_entry call issues at
\* most one write to ~/.ssh/config; the write comes after the whole file was
\* read and carries the complete new content computed from it; while the
\* call has not reached its write, and when a step before the write failed,
\* the file is as it was when the call began.
C21_SingleWriteOfWholeContent ==
    /\ st_writes <= 1
    /\ st_writes = 0 => ssh_config = before
    /\ (st_result.res = "Err" /\ st_result.failed # "write") =>
           (st_writes = 0 /\ ssh_config = before)
    /\ (st_writes = 1 /\ st_result.res = "Ok") => ssh_config = WholeNewContent
    /\ st_pc = "write" => st_content = WholeNewContent

\* C21 witnesses: a call on a file with content wrote once and changed the
\* file; a call failed at its read and left that file as it was.
C21_Witness ==
    /\ st_pc = "idle"
    /\ st_call.op = "remove"
    /\ st_result.res = "Ok"
    /\ st_writes = 1
    /\ before # NoFile /\ before # <<>>
    /\ ssh_config # before

\* ------------------------------------------------------------------------
\* `repo discover` and `repo apply` from the command line (main.rs 445-464):
\* every invocation is a process with a RepoManager of its own
\* ------------------------------------------------------------------------

\* Mutation of new_manager: the manager starts with the list the last
\* `repo discover` invocation found.
new_manager_with_last_discovery(config) ==
    [config |-> config, discovered_repos |-> printed_repos]

\* RepoManager::new
new_manager(config) == [config |-> config, discovered_repos |-> <<>>]

\* git-switch repo discover <path>: the list is printed and the process ends
RunRepoDiscover ==
    /\ repos # <<>>
    /\ LET repo_manager == new_manager(accounts)
           discovered == repo_manager.discovered_repos \o
               [i \in DOMAIN repos |->
                   analyze_repository(repo_manager.config, iter_order, repos[i])]
       IN  printed_repos' = discovered
    /\ repos_before' = repos
    /\ bulk' = NoBulk
    /\ UNCHANGED <<repos, discovered_repos, bulk_runs>>
    /\ UNCHANGED <<sshVars, detVars, cliVars, switchVars, remoteVars, conVars, moreVars>>

\* git-switch repo apply [--dry-run] [--force]
RunRepoApply(dry_run, force, failing, fails_at) ==
    /\ bulk_runs < MaxBulkRuns
    /\ bulk_runs' = bulk_runs + 1
    /\ repos_before' = repos
    /\ LET repo_manager == new_manager(accounts)
           run == bulk_apply(repo_manager.discovered_repos, dry_run, force, failing,
                             fails_at)
       IN  repos' = run.repos /\ bulk' = run.bulk
    /\ UNCHANGED <<discovered_repos, printed_repos>>
    /\ UNCHANGED <<sshVars, detVars, cliVars, switchVars, remoteVars, conVars, moreVars>>

RepoCliNext ==
    \/ RunRepoDiscover
    \/ \E dry_run \in BOOLEAN, force \in BOOLEAN, failing \in 1..MaxRepos,
          fails_at \in FailurePoints : RunRepoApply(dry_run, force, failing, fails_at)

SpecRepoCli == BulkInit /\ [][RepoCliNext]_vars

\* ------------------------------------------------------------------------
\* Claims about the repo commands (checked under SpecRepoCli)
\* ------------------------------------------------------------------------

\* C23: the discovered-repository list lives only in the memory of the
\* process that ran discovery: every `repo apply` invocation starts with an
\* empty list, so bulk_apply returns NoRepositoriesDiscovered and modifies
\* no repository, whatever `repo discover` invocations ran before.
C23_ApplyFindsNothingDiscovered ==
    bulk # NoBulk =>
        /\ bulk.result = "NoRepositoriesDiscovered"
        /\ bulk.applied = {}
        /\ repos = repos_before

\* C23 witness: a `repo discover` invocation listed a repository with a
\* suggestion that a forced apply would have taken, and the `repo apply
\* --force` run after it found nothing discovered.
C23_Witness ==
    /\ bulk.result = "NoRepositoriesDiscovered"
    /\ bulk.force /\ ~bulk.dry_run
    /\ \E i \in DOMAIN printed_repos : reaches_apply(FALSE, TRUE, printed_repos[i])

\* ------------------------------------------------------------------------
\* Profiles (profiles.rs): a ProfileManager holds a copy of the Config and
\* the profiles it loaded; create, update and delete work on that memory
\* and save the whole map.  Account commands run as invocations of their
\* own and change the config file only.
\* ------------------------------------------------------------------------

ProfileNames == {"p"}

ProfileAccounts == {"w", "x"}

\* The --accounts, --add-accounts and --remove-accounts lists.
AccountLists == { <<>>, <<"w">>, <<"x">>, <<"w", "x">> }

Defaults == { None, Some("w"), Some("x") }

\* Vec::contains
VecContains(vec, x) == \E i \in 1..Len(vec) : vec[i] = x

\* accounts.retain(|a| a != &account)
retain(vec, account) == SelectSeq(vec, LAMBDA a : a # account)

\* create_profile: the first account of the list that is not stored
RECURSIVE first_missing(_, _)
first_missing(list, config) ==
    IF list = <<>> THEN None
    ELSE IF Head(list) \notin config THEN Some(Head(list))
    ELSE first_missing(Tail(list), config)

\* The `for account in add_accounts` loop of update_profile: the accounts of
\* the profile when the loop ends or returns, and whether it returned
\* AccountNotFound.
RECURSIVE add_loop(_, _, _)
add_loop(profile_accounts, add_accounts, config) ==
    IF add_accounts = <<>> THEN [ok |-> TRUE, accounts |-> profile_accounts]
    ELSE LET account == Head(add_accounts)
         IN  IF account \notin config
             THEN [ok |-> FALSE, accounts |-> profile_accounts]
             ELSE add_loop(IF VecContains(profile_accounts, account)
                           THEN profile_accounts
                           ELSE Append(profile_accounts, account),
                           Tail(add_accounts), config)

\* Mutation of clear_default: the default account stays when it is removed
\* from the profile.
clear_default_never(default_account, account) == default_account

\* if profile.default_account.as_ref() == Some(&account) { .. = None }
clear_default(default_account, account) ==
    IF default_account = Some(account) THEN None ELSE default_account

\* The `for account in remove_accounts` loop of update_profile
RECURSIVE remove_loop(_, _)
remove_loop(profile, remove_accounts) ==
    IF remove_accounts = <<>> THEN profile
    ELSE LET account == Head(remove_accounts)
         IN  remove_loop([accounts        |-> retain(profile.accounts, account),
                          default_account |-> clear_default(profile.default_account,
                                                            account)],
                         Tail(remove_accounts))

\* create_profile: the result and the profiles of the manager afterwards
create_profile(mgr, name, accs, default_account) ==
    IF name \in DOMAIN mgr.profiles
    THEN [res |-> "ProfileAlreadyExists", profiles |-> mgr.profiles]
    ELSE IF first_missing(accs, mgr.config) # None
    THEN [res |-> "AccountNotFound", profiles |-> mgr.profiles]
    ELSE IF default_account # None /\ ~VecContains(accs, default_account[1])
    THEN [res |-> "InvalidDefaultAccount", profiles |-> mgr.profiles]
    ELSE [res |-> "Ok",
          profiles |-> insert(mgr.profiles, name,
                              [accounts |-> accs, default_account |-> default_account])]

\* update_profile: the profile is changed in place (get_mut), so what the
\* loops did before an error return stays in the memory of the manager.
update_profile(mgr, name, add_accounts, remove_accounts, default_account) ==
    IF name \notin DOMAIN mgr.profiles
    THEN [res |-> "ProfileNotFound", profiles |-> mgr.profiles]
    ELSE LET profile == mgr.profiles[name]
             added == add_loop(profile.accounts, add_accounts, mgr.config)
             with_added == [profile EXCEPT !.accounts = added.accounts]
             removed == remove_loop(with_added, remove_accounts)
         IN  IF ~added.ok
             THEN [res |-> "AccountNotFound",
                   profiles |-> [mgr.profiles EXCEPT ![name] = with_added]]
             ELSE IF default_account # None
                     /\ ~VecContains(removed.accounts, default_account[1])
             THEN [res |-> "InvalidDefaultAccount",
                   profiles |-> [mgr.profiles EXCEPT ![name] = removed]]
             ELSE [res |-> "Ok",
                   profiles |-> [mgr.profiles EXCEPT ![name] =
                                    IF default_account # None
                                    THEN [removed EXCEPT !.default_account = default_account]
                                    ELSE removed]]

\* delete_profile
delete_profile(mgr, name) ==
    IF name \notin DOMAIN mgr.profiles
    THEN [res |-> "ProfileNotFound", profiles |-> mgr.profiles]
    ELSE [res |-> "Ok", profiles |-> remove(mgr.profiles, name)]

ProfileInit ==
    /\ SshIdle
    /\ DetIdle
    /\ CliIdle
    /\ BulkIdle
    /\ SwitchIdle
    /\ RemoteIdle
    /\ ConIdle
    /\ StepIdle
    /\ ScanIdle
    /\ pf_accounts \in SUBSET ProfileAccounts
    /\ pf_file = <<>>
    /\ pf_mgr = [config |-> pf_accounts, profiles |-> <<>>]
    /\ pf_last = NoProfileCall

profileFrame == <<sshVars, detVars, cliVars, bulkVars, switchVars, remoteVars, conVars,
                  stepVars, scanVars>>

\* What a call on the manager leaves: its memory, the file when the call
\* reached save_profiles, and the record of the call.
Called(op, r) ==
    /\ pf_mgr' = [pf_mgr EXCEPT !.profiles = r.profiles]
    /\ pf_file' = IF r.res = "Ok" THEN r.profiles ELSE pf_file
    /\ pf_last' = [op |-> op, res |-> r.res, file |-> pf_file]
    /\ UNCHANGED <<pf_accounts, profileFrame>>

\* ProfileManager::new(config): a new invocation loads the stored accounts
\* and the persisted profiles.
NewProfileManager ==
    /\ pf_mgr' = [config |-> pf_accounts, profiles |-> pf_file]
    /\ pf_last' = [op |-> "new", res |-> "Ok", file |-> pf_file]
    /\ UNCHANGED <<pf_accounts, pf_file, profileFrame>>

CreateProfile(name, accs, default_account) ==
    Called("create", create_profile(pf_mgr, name, accs, default_account))

UpdateProfile(name, add_accounts, remove_accounts, default_account) ==
    Called("update",
           update_profile(pf_mgr, name, add_accounts, remove_accounts, default_account))

DeleteProfile(name) == Called("delete", delete_profile(pf_mgr, name))

\* git-switch add <name> ..., an invocation of its own that succeeds
ProfileAddAccount(name) ==
    /\ name \notin pf_accounts
    /\ pf_accounts' = pf_accounts \cup {name}
    /\ pf_last' = [op |-> "add", res |-> "Ok", file |-> pf_file]
    /\ UNCHANGED <<pf_file, pf_mgr, profileFrame>>

\* git-switch remove <name> --no-prompt, an invocation of its own:
\* remove_account takes the account out of the config and out of
\* ~/.ssh/config and reads no profile.
ProfileRemoveAccount(name) ==
    /\ name \in pf_accounts
    /\ pf_accounts' = pf_accounts \ {name}
    /\ pf_last' = [op |-> "remove", res |-> "Ok", file |-> pf_file]
    /\ UNCHANGED <<pf_file, pf_mgr, profileFrame>>

ProfileNext ==
    \/ NewProfileManager
    \/ \E name \in ProfileNames, accs \in AccountLists, d \in Defaults :
          CreateProfile(name, accs, d)
    \/ \E name \in ProfileNames, add \in AccountLists, rem \in AccountLists,
          d \in Defaults : UpdateProfile(name, add, rem, d)
    \/ \E name \in ProfileNames : DeleteProfile(name)
    \/ \E name \in ProfileAccounts : ProfileAddAccount(name)
    \/ \E name \in ProfileAccounts : ProfileRemoveAccount(name)

SpecProfiles == ProfileInit /\ [][ProfileNext]_vars

\* ------------------------------------------------------------------------
\* Claims about profiles (checked under SpecProfiles)
\* ------------------------------------------------------------------------

\* C28: after any sequence of account and profile commands, every account
\* name listed in a persisted profile is the name of a stored account.
C28_ProfilesListStoredAccounts ==
    \A p \in DOMAIN pf_file :
        \A i \in 1..Len(pf_file[p].accounts) : pf_file[p].accounts[i] \in pf_accounts

\* Every profile of the map with a default account has it in its list.
DefaultsListed(profiles) ==
    \A p \in DOMAIN profiles :
        profiles[p].default_account # None =>
            VecContains(profiles[p].accounts, profiles[p].default_account[1])

MaxDepth == 2

DirR == <<"r">>

DirA == <<"a">>

DirS == <<"s">>

DirH == <<".", "h">>

FileF == <<"f">>

LinkL == <<"l">>

ScanDirs == {DirR, DirA, DirS, DirH}

LinkHolders == {DirR, DirA}

LinkTargets(dir) == IF dir = DirR THEN {DirR, DirA, DirS, FileF} ELSE {DirR}

\* The links a directory may hold: none, or one to a target.
Links(dir) == {None} \cup {Some(t) : t \in LinkTargets(dir)}

\* The real entries of each directory.
RealEntries(dir) ==
    CASE dir = DirR -> {DirA, DirH, FileF}
      [] dir = DirA -> {DirS}
      [] OTHER -> {}

\* dir is stored somewhere below anc in the tree of real directories.
RECURSIVE StoredInside(_, _)
StoredInside(dir, anc) ==
    \E c \in RealEntries(anc) : c = dir \/ StoredInside(dir, c)

\* std::fs::read_dir: the names of the entries of a directory.
read_dir(dir) ==
    RealEntries(dir) \cup (IF dir \in LinkHolders /\ fs_link[dir] # None THEN {LinkL} ELSE {})

\* What the entry `name` of directory dir resolves to.
Resolve(dir, name) == IF name = LinkL THEN fs_link[dir][1] ELSE name

\* Path::is_dir, which follows links.
is_dir(node) == node \in ScanDirs

\* The depth test with the limit one level too far.
exceeds_one_level_later(current_depth, limit) == current_depth > limit + 1

\* if current_depth > max_depth { return Ok(()) }
exceeds(current_depth, limit) == current_depth > limit

\* A call of find_git_repositories_recursive that has not run yet.
Frame(path, dir, depth) ==
    [path |-> path, dir |-> dir, depth |-> depth, pc |-> "enter", entries |-> {}]

ScanInit ==
    /\ SshIdle
    /\ DetIdle
    /\ CliIdle
    /\ BulkIdle
    /\ SwitchIdle
    /\ RemoteIdle
    /\ ConIdle
    /\ StepIdle
    /\ ProfileIdle
    /\ fs_link \in { [dir \in LinkHolders |-> IF dir = DirR THEN x ELSE y] :
                      x \in Links(DirR), y \in Links(DirA) }
    /\ fs_git \in SUBSET {DirR, DirA, DirS}
    /\ max_depth \in 0..MaxDepth
    /\ scan_pc = "start"
    /\ scan_stack = <<>>
    /\ repositories = <<>>
    /\ deepest = 0

scanFrame == <<sshVars, detVars, cliVars, bulkVars, switchVars, remoteVars, conVars,
               stepVars, profileVars, fs_link, fs_git, max_depth>>

\* The top call returns; the scan is over when it was the first call.
Pop ==
    /\ scan_stack' = SubSeq(scan_stack, 1, Len(scan_stack) - 1)
    /\ scan_pc' = IF Len(scan_stack) = 1 THEN "done" ELSE "scan"

\* The top call goes on as frame f.
Replace(f) ==
    /\ scan_stack' = [scan_stack EXCEPT ![Len(scan_stack)] = f]
    /\ scan_pc' = "scan"

\* find_git_repositories: the first call, on the search path at depth 0.
ScanStart ==
    /\ scan_pc = "start"
    /\ scan_pc' = "scan"
    /\ scan_stack' = <<Frame(<<>>, DirR, 0)>>
    /\ UNCHANGED <<repositories, deepest, scanFrame>>

\* The head of a call: the depth test, the .git test, read_dir.
ScanEnter(readable) ==
    /\ scan_pc = "scan"
    /\ LET f == scan_stack[Len(scan_stack)] IN
       /\ f.pc = "enter"
       /\ IF exceeds(f.depth, max_depth)
          THEN Pop /\ UNCHANGED <<repositories, deepest>>
          ELSE /\ deepest' = IF f.depth > deepest THEN f.depth ELSE deepest
               /\ IF f.dir \in fs_git
                  THEN /\ repositories' = Append(repositories, [path |-> f.path, dir |-> f.dir])
                       /\ Pop
                  ELSE /\ UNCHANGED repositories
                       /\ IF readable
                          THEN Replace([f EXCEPT !.pc = "loop", !.entries = read_dir(f.dir)])
                          ELSE Pop
    /\ UNCHANGED scanFrame

\* One turn of the loop over the entries, in the order read_dir gives them:
\* a directory whose name does not start with "." gets its own call.
ScanEntry(name) ==
    /\ scan_pc = "scan"
    /\ LET f == scan_stack[Len(scan_stack)]
           node == Resolve(f.dir, name)
           rest == [f EXCEPT !.entries = f.entries \ {name}] IN
       /\ f.pc = "loop"
       /\ name \in f.entries
       /\ IF is_dir(node) /\ ~StartsWith(name, <<".">>)
          THEN scan_stack' = Append([scan_stack EXCEPT ![Len(scan_stack)] = rest],
                                    Frame(Append(f.path, name), node, f.depth + 1))
          ELSE scan_stack' = [scan_stack EXCEPT ![Len(scan_stack)] = rest]
    /\ UNCHANGED <<scan_pc, repositories, deepest, scanFrame>>

\* The loop is over: the call returns Ok(()).
ScanReturn ==
    /\ scan_pc = "scan"
    /\ LET f == scan_stack[Len(scan_stack)] IN
       /\ f.pc = "loop"
       /\ f.entries = {}
    /\ Pop
    /\ UNCHANGED <<repositories, deepest, scanFrame>>

ScanNext ==
    \/ ScanStart
    \/ \E readable \in BOOLEAN : ScanEnter(readable)
    \/ \E name \in {DirA, DirS, DirH, FileF, LinkL} : ScanEntry(name)
    \/ ScanReturn

SpecScan == ScanInit /\ [][ScanNext]_vars

\* The scan is one thread of one process: a call that can take its next step
\* takes it.
SpecScanFair == SpecScan /\ WF_vars(ScanNext)

\* No pushed path lies below, or equals, another pushed path.
NoPathBelowAnother ==
    \A i, j \in DOMAIN repositories :
        i # j => ~StartsWith(repositories[j].path, repositories[i].path)

\* C30 as stated, with "inside" read as where the directories are stored: no
\* returned repository is stored inside another returned repository.
C30_NoRepositoryInsideAnother ==
    \A i, j \in DOMAIN repositories :
        ~StoredInside(repositories[j].dir, repositories[i].dir)

\* C30: the recursive repository scan always terminates, also when links
\* form a cycle; it examines no directory more than max_depth levels below
\* the search path, and holds at most max_depth + 2 calls at a time; it does
\* not descend below a directory that contains .git, so no returned path lies
\* below another returned path.
C30_ScanTerminatesWithinDepth ==
    /\ <>(scan_pc = "done")
    /\ [](deepest <= max_depth /\ Len(scan_stack) <= max_depth + 2)
    /\ [](\A i \in DOMAIN repositories : Len(repositories[i].path) <= max_depth)
    /\ []NoPathBelowAnother

\* C30 witness: a scan over a link cycle (r/l is r itself) is over; it went
\* to its depth limit, and returned a repository twice, under two paths.
C30_Witness ==
    /\ scan_pc = "done"
    /\ fs_link[DirR] = Some(DirR)
    /\ max_depth >= 2
    /\ deepest = max_depth
    /\ \E i, j \in DOMAIN repositories :
          /\ i # j
          /\ repositories[i].dir = repositories[j].dir
          /\ repositories[j].path = <<LinkL>> \o repositories[i].path

====
